---- MODULE Spec2Model ----
(***************************************************************************)
(* A model of the drying_paint reactive runtime: watched cells with their  *)
(* WatchSet (src/src/trigger.rs, src/src/watched_core.rs) and the frame    *)
(* scheduler WatchContext (src/src/context.rs).                            *)
(*                                                                         *)
(* A watch closure is user code.  Two kinds of closure are modelled: the   *)
(* "copy" closure of the propagation test (dest := *source) and a "free"   *)
(* closure that performs, on every execution, any sequence of at most      *)
(* MaxOps library calls.  Every library call is one step; update() is      *)
(* split at its loop test and at the points where it calls into a closure. *)
(* The context is the one of a debug build: frame limit Some(1024) and the  *)
(* cycle diagnostic (cfg do_cycle_debug, src/src/cycle_debug.rs) compiled   *)
(* in.                                                                      *)
(***************************************************************************)
EXTENDS Integers, Sequences, FiniteSets, TLC

\* ---------------------------------------------------------------- bounds
NumCells == 2
NumValued == 1
MaxValue == 1
MaxWatches == 2
MaxOps == 2
MaxCycle == 2
MaxLimit == 2
\* the bits of a machine word (FLAG_COUNT) and the SyncWatchedMeta values of
\* the program
FlagCount == 2
NumMetas == 2
\* the OwnedPointers of the program, the sender threads of the watched
\* channel and the values they send in all
NumPointers == 2
NumSenders == 2
MaxSends == 2
\* the items pushed onto the WatchedQueue in all
MaxItems == 2

\* ------------------------------------------------------ program constants
NodeSize == 4
BigLimitFactor == 64
FrameIdModulus == 256
TrackWindow == 5

Cells == 1..NumCells
\* the first NumValued cells wrap a number (WatchedCore / WatchedCellCore of an
\* integer), the others wrap the unit type (a bare WatchedMeta)
ValuesOf(c) == IF c <= NumValued THEN 0..MaxValue ELSE {0}
WatchIds == 1..MaxWatches
Source == 1
NoLimit == -1
Bodies == {"copy", "free"}
\* usize::MAX of a word of FlagCount bits
UsizeMax == 2 ^ FlagCount - 1
Metas == 1..NumMetas
\* SyncContext.watched[i], as a cell without a value
BridgeCell(i) == NumCells + 1 + i
BridgeCells == {BridgeCell(i) : i \in 0..(FlagCount - 1)}

\* the closures of the documentation's examples: KeepBalanced with plain
\* assignment, KeepBalanced with set_if_neq, and the test MutsTwice; each
\* makes two library calls
Examples == {"assign", "neq", "muts"}
ScriptLen == 2
Left == 1
Right == 2
\* no external write is recorded
NoExt == [c |-> 0, v |-> 0]

\* Rc::as_ptr of an OwnedPointer: pointer ids are addresses
Pointers == 1..NumPointers
\* enum BorrowState
NothingBorrowed == [kind |-> "NothingBorrowed", ptr |-> 0]
BorrowsBlocked == [kind |-> "BorrowsBlocked", ptr |-> 0]
Borrowed(p) == [kind |-> "Borrowed", ptr |-> p]
\* the threads that hold a WatchedSender
Senders == 1..NumSenders
\* ChannelsContext.activity, as a cell without a value
ActivityCell == NumCells + FlagCount + 1
\* WatchedQueue.current_meta, as a cell without a value
QueueCell == NumCells + FlagCount + 2
\* the items of the queue, numbered in the order of their push
Items == 1..MaxItems

VARIABLES
    value,              \* WatchedCore.value / WatchedCellCore.value, per cell
    watchers,           \* WatchedMeta.watchers, per cell
    cycle,              \* WatchData.cycle, per watch (0 for unallocated ids)
    body,               \* WatchData.update_fn, per watch: which closure
    spawned,            \* number of Watch records allocated
    dest,               \* the plain field written by the copy closure
    next_frame,         \* WatchContext.next_frame
    other_frame,        \* WatchContext.other_frame
    current_frame,      \* update()'s local current_frame
    frame_id,           \* WatchContext.frame_info.id
    total_watch_count,  \* WatchContext.total_watch_count
    frame_limit,        \* WatchContext.frame_limit (NoLimit = None)
    limit,              \* update()'s local frame_limit
    pc,                 \* position of the home thread in update()
    stack,              \* closures being executed, innermost last
    current_arg,        \* thread-local CURRENT_ARG (0 = None)
    iter,               \* history: drain iteration running (0 outside update)
    limit0,             \* history: frame_limit read when update() began
    ran,                \* history: watches executed in this drain iteration
    obs,                \* history: cells observed by a watch's latest execution
    last,               \* history: the library call made by the last step
    watch_edges,        \* CycleDiagnostic.watch_edges of update()'s local debug
    visited,            \* find_cycle's local visited
    root,               \* find_cycle's loop index root (1-based, 0 outside)
    fc_seen,            \* history: configurations find_cycle has been in
    ext,                \* history: the latest get_mut_external write, if no
                        \* update() has completed since
    dirty,              \* history, per watch: a cell it had observed in its
                        \* latest execution has been notified since
    writer,             \* history, per cell: the watch that wrote it in the
                        \* drain iteration running (0: not written in it)
    flag,               \* SyncContext.flag, the atomic word
    next_index,         \* SyncContext.next_index
    index,              \* SyncWatchedMeta.index, per meta
    mask,               \* SharedMeta.mask, per meta
    flag_pole,          \* SharedMeta.flag_pole holds the flag's handle, per meta
    observed,           \* history, per meta: the watches whose latest execution
                        \* called watched() on it
    borrow_state,       \* the thread-local BORROW_STATE
    scopes,             \* the closures of BorrowedPointer::upgrade and
                        \* allow_refs that are running, outermost first
    owned,              \* per pointer: its OwnedPointer exists
    pdata,              \* per pointer: the value it points to
    holder,             \* per watch: the pointer of the watcher it belongs to
                        \* (0: a closure added with add_watch)
    chan,               \* the mpsc channel: values sent and not yet received
    ch_flag,            \* ChannelsContext.flag
    sending,            \* per sender thread: its position in send()
    sent,               \* history: the values in the order they were pushed
    received,           \* history: the values the receiving watch has got
    queue,              \* WatchedQueue.queue
    current_data,       \* WatchedQueue.current_data (0 = None)
    popped_frame_id,    \* WatchedQueue.popped_frame_id
    pushes,             \* history: the number of items pushed
    handled,            \* history, per watch: the items its handle_item
                        \* callback was called with, in order
    subs,               \* history, per item: the watches that were subscribed
                        \* to the queue when it was pushed
    pops,               \* history: the items removed from the queue, each with
                        \* the frame id it was removed under
    id0                 \* history: frame_info.id when update() began

vars == <<value, watchers, cycle, body, spawned, dest, next_frame,
          other_frame, current_frame, frame_id, total_watch_count,
          frame_limit, limit, pc, stack, current_arg, iter, limit0, ran,
          obs, last, watch_edges, visited, root, fc_seen, ext, dirty,
          writer, flag, next_index, index, mask, flag_pole, observed,
          borrow_state, scopes, owned, pdata, holder, chan, ch_flag,
          sending, sent, received, queue, current_data,
          popped_frame_id, pushes, handled, subs, pops, id0>>

\* the state of the cycle diagnostic
diag == <<watch_edges, visited, root, fc_seen>>

\* the state of the bridge to other threads, but for the atomic word
bridge == <<next_index, index, mask, flag_pole, observed>>
sync == <<flag, bridge>>

\* the state of pointer.rs, of the watched channel, and all that lies
\* outside the scheduler
pointers == <<borrow_state, scopes, owned, pdata>>
channel == <<chan, ch_flag, sending, sent, received>>
wqueue == <<queue, current_data, popped_frame_id, pushes, handled, subs,
            pops>>
aside == <<wqueue, id0>>
apart == <<pointers, holder, channel, aside>>

\* ------------------------------------------------------------- WatchRef
NoRef == [w |-> 0, cycle |-> 0]
MkRef(w, c) == [w |-> w, cycle |-> c]
\* Rc::as_ptr of the watch, null for an empty slot: watch ids are addresses
Ptr(ref) == ref.w

IsFreshAlways(ref) == TRUE
IsFresh(ref) == ref.cycle = cycle[ref.w]

GetRef(w) == MkRef(w, cycle[w])

\* the generation WatchRef::execute stores before it calls the closure
SameCycle(c) == c
NextCycle(c) == c + 1

\* WatchRef::sort_slot: <<target, held>> after the call
SortSlot(target, held, newest_cycle) ==
    IF Ptr(target) > Ptr(held) THEN <<held, target>>
    ELSE IF Ptr(target) < Ptr(held) THEN <<target, held>>
    ELSE <<IF target = NoRef THEN target
           ELSE [target EXCEPT !.cycle = newest_cycle], NoRef>>

\* ------------------------------------------------------------- WatchSet
EmptyNode == [i \in 1..NodeSize |-> NoRef]
NoList == [some |-> FALSE, chain |-> <<>>, target |-> FALSE, nodes |-> 0]
NewHead(target) ==
    [some |-> TRUE, chain |-> <<EmptyNode>>, target |-> target, nodes |-> 1]

Min(a, b) == IF a < b THEN a ELSE b
Max(a, b) == IF a > b THEN a ELSE b

RECURSIVE ILog2(_)
ILog2(n) == IF n <= 1 THEN 0 ELSE 1 + ILog2(n \div 2)

\* node_limit of WatchSet::add (the watch counts reached here are far below
\* u32::MAX, where the conversion and the addition saturate)
NodeLimit(total) ==
    Min(total + 1, (ILog2(Max(total, 1)) + 1) * BigLimitFactor)

\* the loop of WatchSet::add over the head node's buckets, last to first
RECURSIVE AddSlots(_, _, _, _)
AddSlots(node, i, held, newest) ==
    IF i = 0 \/ held = NoRef THEN <<node, held>>
    ELSE LET r == SortSlot(node[i], held, newest)
         IN  AddSlots([node EXCEPT ![i] = r[1]], i - 1, r[2], newest)

\* the references of a list in traversal order (head node first)
RECURSIVE NodeRefs(_, _)
NodeRefs(node, i) ==
    IF i > NodeSize THEN <<>>
    ELSE (IF node[i] = NoRef THEN <<>> ELSE <<node[i]>>) \o NodeRefs(node, i + 1)

RECURSIVE ChainRefs(_)
ChainRefs(chain) ==
    IF chain = <<>> THEN <<>>
    ELSE NodeRefs(Head(chain), 1) \o ChainRefs(Tail(chain))

Refs(ws) == IF ws.some THEN ChainRefs(ws.chain) ELSE <<>>

\* the elements of a sequence
Range(seq) == {seq[i] : i \in 1..Len(seq)}

\* first reference to watch w in a sequence of references
FirstOf(refs, w) ==
    refs[CHOOSE i \in 1..Len(refs) :
            /\ refs[i].w = w
            /\ \A j \in 1..(i - 1) : refs[j].w # w]

\* stable sort by address followed by dedup_by_key (keeps the first)
RECURSIVE SortDedup(_, _)
SortDedup(refs, w) ==
    IF \A i \in 1..Len(refs) : refs[i].w < w THEN <<>>
    ELSE (IF \E i \in 1..Len(refs) : refs[i].w = w
          THEN <<FirstOf(refs, w)>> ELSE <<>>) \o SortDedup(refs, w + 1)

\* WatchSet::squash
Squash(ws) ==
    IF ~ws.some THEN ws
    ELSE LET kept == SelectSeq(SortDedup(ChainRefs(ws.chain), 1), IsFresh)
             rem  == Len(kept) % NodeSize
             full == Len(kept) \div NodeSize
             head == [i \in 1..NodeSize |->
                        IF i > NodeSize - rem
                        THEN kept[i - (NodeSize - rem)] ELSE NoRef]
             rest == [j \in 1..full |->
                        [i \in 1..NodeSize |-> kept[rem + NodeSize * (j - 1) + i]]]
         IN  [ws EXCEPT !.chain = <<head>> \o rest, !.nodes = 1 + full]

\* the flag squash of WatchSet::add
SquashDue(ws, target, total) ==
    LET head == IF ws.some THEN ws ELSE NewHead(target)
    IN  Head(head.chain)[1] = NoRef /\ head.nodes > NodeLimit(total)

\* the list of WatchSet::add when its closure returns, before `if squash`
Insert(ws, ref, target) ==
    LET head == IF ws.some THEN ws ELSE NewHead(target)
        r    == AddSlots(Head(head.chain), NodeSize, ref, ref.cycle)
    IN  IF r[2] = NoRef
        THEN [head EXCEPT !.chain = <<r[1]>> \o Tail(head.chain)]
        ELSE [head EXCEPT
                !.chain = <<[EmptyNode EXCEPT ![NodeSize] = r[2]], r[1]>>
                          \o Tail(head.chain),
                !.nodes = head.nodes + 1]

\* WatchSet::add
Add(ws, ref, target, total) ==
    IF SquashDue(ws, target, total) THEN Squash(Insert(ws, ref, target))
    ELSE Insert(ws, ref, target)

\* the filter of WatchSet::trigger_with_current / trigger_external:
\* current = 0 stands for "accept all"
FilterNone(ref, current) == TRUE
FilterRunning(ref, current) == ~(stack # <<>> /\ ref.w = stack[Len(stack)].w)
Filter(ref, current) == current = 0 \/ ref.w # current

\* WatchSet::trigger_filtered: the references pushed onto the pending buffer
PushedNone(ws, current) == <<>>
Pushed(ws, current) ==
    IF ws.some /\ ws.target /\ pc # "dropped"
    THEN SelectSeq(Refs(ws), LAMBDA ref : Filter(ref, current))
    ELSE <<>>

\* TriggeredWatch, with the cell and drain iteration it was pushed from
Triggered(ref, src, c) ==
    [w |-> ref.w, cycle |-> ref.cycle, src |-> src, cell |-> c, born |-> iter]

PushAll(refs, src, c) == [i \in 1..Len(refs) |-> Triggered(refs[i], src, c)]


\* ------------------------------------------------------- the call stack
Running == stack # <<>>
Top == stack[Len(stack)]
Caller == SubSeq(stack, 1, Len(stack) - 1)
AtHome == pc = "idle" /\ ~Running
\* the WatchContext has been dropped
Dropped == pc = "dropped"

NewFrame(w, b, count) ==
    [w |-> w, left |-> IF b = "copy" THEN 1
                       ELSE IF b = "free" THEN MaxOps ELSE ScriptLen,
     count |-> count, scopes |-> <<>>]

\* the running free closure may make one more library call
CanCall == Running /\ body[Top.w] = "free" /\ Top.left > 0
Called == [stack EXCEPT ![Len(stack)].left = @ - 1]

Note(op, w, c) == last' = [op |-> op, w |-> w, c |-> c]
\* history: a call with a value argument
NoteValue(op, w, c, v) == last' = [op |-> op, w |-> w, c |-> c, v |-> v]

\* history: the running closure writes cell c
Written(c) == writer' = [writer EXCEPT ![c] = IF pc = "drain" THEN Top.w ELSE 0]

\* history: cell c is notified
Notified(c) == dirty' = [w \in WatchIds |-> dirty[w] \/ c \in obs[w]]

\* WatchedMeta::watched
Watched(ws, w, count) == Add(ws, GetRef(w), TRUE, count)

TriggerNotWatched(w, count) == NoList
\* WatchedMeta::trigger followed by WatchedMeta::watched (get_mut, replace, take)
TriggerThenWatched(w, count) == Add(NoList, GetRef(w), TRUE, count)
TriggerKeepsCurrent(w, count) == Add(NoList, GetRef(w), TRUE, count)
\* WatchedMeta::trigger alone (WatchedCellCore::set, set_if_neq)
TriggerOnly(w, count) == NoList

\* Cell::swap of the pending buffer with update()'s scratch buffer:
\* <<next_frame, current_frame>> after the call
NotSwapped(pending, scratch) == <<pending, scratch>>
Swapped(pending, scratch) == <<scratch, pending>>

\* the test of update()'s while loop fails
LoopDone == current_frame = <<>>

\* the limit counter of update() has reached zero
LimitReached == limit # NoLimit /\ limit = 0

\* ------------------------------------------------------ CycleDiagnostic
\* TriggeredWatch::to_edge: (source watch, triggered watch), source 0 = null
Edge(item) == <<item.src, item.w>>

\* CycleDiagnostic::track_frame: watch_edges is a sorted vector without
\* duplicates, kept here as the set of its elements
TrackFrame(edges, frame) == edges \cup {Edge(frame[i]) : i \in 1..Len(frame)}

\* the edges known after the tracking done at the top of a loop iteration
Tracked ==
    IF limit # NoLimit /\ limit < TrackWindow
    THEN TrackFrame(watch_edges, current_frame) ELSE watch_edges

\* the order of (*const (), *const ()) tuples
EdgeLess(a, b) == a[1] < b[1] \/ (a[1] = b[1] /\ a[2] < b[2])

\* watch_edges as the sorted vector
RECURSIVE SortedEdges(_)
SortedEdges(E) ==
    IF E = {} THEN <<>>
    ELSE LET m == CHOOSE a \in E : \A b \in E \ {a} : EdgeLess(a, b)
         IN  <<m>> \o SortedEdges(E \ {m})

\* binary_search(&(p, null)) followed by get(i) with edge.0 == p: the index
\* of the first edge leaving p, 0 if there is none
FirstFrom(es, p) ==
    IF \E i \in 1..Len(es) : es[i][1] = p
    THEN CHOOSE i \in 1..Len(es) :
            es[i][1] = p /\ \A j \in 1..(i - 1) : es[j][1] # p
    ELSE 0

\* binary_search(&(current, target)).unwrap()
IndexOf(es, e) == CHOOSE i \in 1..Len(es) : es[i] = e

PositionFirst(seq, x) == 1
\* visited.iter().position(|&e| e == x), 0 for None
Position(seq, x) ==
    IF \E i \in 1..Len(seq) : seq[i] = x
    THEN CHOOSE i \in 1..Len(seq) :
            seq[i] = x /\ \A j \in 1..(i - 1) : seq[j] # x
    ELSE 0

\* the start of the body of find_cycle's for loop at index r
StartRoot(es, r) == <<es[r][1], es[r][2]>>

\* one pass through find_cycle's loops from the configuration (r, vis):
\* the next configuration, and whether find_cycle returns with it
FindCycleNext(es, r, vis) ==
    LET n == Len(vis) IN
    IF n < 2
    THEN \* the while loop is left: visited.clear() and the next root
         IF r + 1 > Len(es)
         THEN [root |-> 0, visited |-> <<>>, done |-> TRUE]
         ELSE [root |-> r + 1, visited |-> StartRoot(es, r + 1), done |-> FALSE]
    ELSE LET current == vis[n - 1]
             target  == vis[n]
             i       == FirstFrom(es, target)
         IN  IF i # 0
             THEN IF Position(vis, es[i][2]) # 0
                  THEN [root |-> 0,
                        visited |-> SubSeq(vis, Position(vis, es[i][2]), n),
                        done |-> TRUE]
                  ELSE [root |-> r, visited |-> Append(vis, es[i][2]),
                        done |-> FALSE]
             ELSE LET cur == IndexOf(es, <<current, target>>)
                  IN  IF cur + 1 <= Len(es) /\ es[cur + 1][1] = current
                      THEN [root |-> r,
                            visited |-> [vis EXCEPT ![n] = es[cur + 1][2]],
                            done |-> FALSE]
                      ELSE [root |-> r, visited |-> SubSeq(vis, 1, n - 1),
                            done |-> FALSE]

\* --------------------------------------------------------------- Init
DefaultLimit == 1024

\* ------------------------------------------------------------ SyncContext
\* bitwise operations on a word
Not(x) == UsizeMax - x
Bits(x) == {i \in 0..(FlagCount - 1) : (x \div (2 ^ i)) % 2 = 1}
RECURSIVE Word(_)
Word(bits) ==
    IF bits = {} THEN 0
    ELSE LET i == CHOOSE i \in bits : TRUE IN 2 ^ i + Word(bits \ {i})
Or(x, y) == Word(Bits(x) \cup Bits(y))

\* the loop of SyncContext::check_for_updates from bit i on: the entries
\* pushed by trigger_external on the bridge cells whose bit is in set_bits
RECURSIVE CheckForUpdates(_, _)
CheckForUpdates(set_bits, i) ==
    IF i >= FlagCount THEN <<>>
    ELSE (IF i \in Bits(set_bits)
          THEN PushAll(Pushed(watchers[BridgeCell(i)], 0), 0, BridgeCell(i))
          ELSE <<>>) \o CheckForUpdates(set_bits, i + 1)
\* the bridge cells notified by check_for_updates
Flagged(set_bits) == {BridgeCell(i) : i \in Bits(set_bits)}

\* the state after WatchContext::new, but for the frame id and the watch
\* ids: a context that has drained id frames (mod 256) since it was made may
\* be left with no cell and no watch of those frames, and its watch counter
\* has counted at least one watch
InitOf(id, ids) ==
    /\ value = [c \in Cells |-> 0]
    /\ watchers = [c \in Cells \cup BridgeCells \cup {ActivityCell, QueueCell}
                    |-> NoList]
    /\ cycle = [w \in ids |-> 0]
    /\ body = [w \in WatchIds |-> "none"]
    /\ spawned = 0
    /\ dest = 0
    /\ next_frame = <<>>
    /\ other_frame = <<>>
    /\ current_frame = <<>>
    /\ frame_id = id
    /\ total_watch_count = (IF id = 0 THEN 0 ELSE 1)
    /\ frame_limit = DefaultLimit
    /\ limit = NoLimit
    /\ pc = "idle"
    /\ stack = <<>>
    /\ current_arg = 0
    /\ iter = 0
    /\ limit0 = NoLimit
    /\ ran = <<>>
    /\ obs = [w \in WatchIds |-> {}]
    /\ last = [op |-> "new", w |-> 0, c |-> 0]
    /\ watch_edges = {}
    /\ visited = <<>>
    /\ root = 0
    /\ fc_seen = {}
    /\ ext = NoExt
    /\ dirty = [w \in WatchIds |-> FALSE]
    /\ writer = [c \in Cells |-> 0]
    /\ flag = 0
    /\ next_index = 0
    /\ index = [m \in Metas |-> UsizeMax]
    /\ mask = [m \in Metas |-> 0]
    /\ flag_pole = [m \in Metas |-> FALSE]
    /\ observed = [m \in Metas |-> {}]
    /\ borrow_state = NothingBorrowed
    /\ scopes = <<>>
    /\ owned = [p \in Pointers |-> TRUE]
    /\ pdata = [p \in Pointers |-> 0]
    /\ holder = [w \in WatchIds |-> 0]
    /\ chan = <<>>
    /\ ch_flag = FALSE
    /\ sending = [t \in Senders |-> [stage |-> 0, n |-> 0]]
    /\ sent = <<>>
    /\ received = <<>>
    /\ queue = <<>>
    /\ current_data = 0
    /\ popped_frame_id = 0
    /\ pushes = 0
    /\ handled = [w \in WatchIds |-> <<>>]
    /\ subs = [i \in Items |-> {}]
    /\ pops = <<>>
    /\ id0 = id

\* WatchContext::new
Init == InitOf(0, WatchIds)

\* ------------------------------------------------ WatchContext operations
\* WatchContext::add_watch_raw and Watch::spawn_raw, from the home thread's
\* top level or from inside a running closure (RawWatchArg::context)
Spawn(b, p) ==
    /\ AtHome \/ CanCall
    /\ spawned < MaxWatches
    /\ LET w == spawned + 1 IN
        /\ spawned' = w
        /\ holder' = [holder EXCEPT ![w] = p]
        /\ total_watch_count' = total_watch_count + 1
        /\ body' = [body EXCEPT ![w] = b]
        /\ cycle' = [cycle EXCEPT ![w] = NextCycle(0)]
        /\ obs' = [obs EXCEPT ![w] = {}]
        /\ dirty' = [dirty EXCEPT ![w] = FALSE]
        /\ stack' = Append(IF Running THEN Called ELSE stack,
                           NewFrame(w, b, total_watch_count'))
        /\ Note("add_watch", w, 0)
    /\ UNCHANGED <<diag, ext, writer, sync>>
    /\ UNCHANGED <<value, watchers, dest, next_frame, other_frame,
                   current_frame, frame_id, frame_limit, limit, pc,
                   current_arg, iter, limit0, ran>>
    /\ UNCHANGED <<pointers, channel, aside>>

AddWatch(b) == Spawn(b, 0)

\* WatchContext::add_watcher on a holder of the watcher at pointer p: a watch
\* whose closure reaches its content through the holder on every run
AddWatcher(p) == owned[p] /\ Spawn("free", p)

\* WatchContext::set_frame_limit
SetFrameLimit(l) ==
    /\ AtHome
    /\ frame_limit # l
    /\ frame_limit' = l
    /\ Note("set_frame_limit", 0, 0)
    /\ UNCHANGED <<diag, ext, dirty, writer, sync>>
    /\ UNCHANGED <<value, watchers, cycle, body, spawned, dest, next_frame,
                   other_frame, current_frame, frame_id, total_watch_count,
                   limit, pc, stack, current_arg, iter, limit0, ran, obs>>
    /\ UNCHANGED apart

\* WatchedCore::get_mut_external from the top level, then a write through it
ExtGetMut(c, v) ==
    /\ AtHome \/ Dropped
    /\ watchers' = [watchers EXCEPT ![c] = NoList]
    /\ next_frame' = next_frame \o PushAll(Pushed(watchers[c], 0), 0, c)
    /\ value' = [value EXCEPT ![c] = v]
    /\ Note("get_mut_external", 0, c)
    /\ ext' = [c |-> c, v |-> v]
    /\ Notified(c)
    /\ UNCHANGED <<diag, writer, sync>>
    /\ UNCHANGED <<cycle, body, spawned, dest, other_frame, current_frame,
                   frame_id, total_watch_count, frame_limit, limit, pc, stack,
                   current_arg, iter, limit0, ran, obs>>
    /\ UNCHANGED apart

BudgetLeft ==
    IF frame_limit = NoLimit THEN NoLimit
    ELSE IF frame_limit > frame_id THEN frame_limit - frame_id ELSE 0
\* `if let Some(mut frame_limit) = self.frame_limit`: the counter of a call
\* of update() is a local that starts from the stored limit
Budget == frame_limit

\* ChannelsContext::check_for_activity: the entries pushed by the trigger of
\* the activity cell when the flag was set
CheckForActivity ==
    IF ch_flag
    THEN PushAll(Pushed(watchers[ActivityCell], 0), 0, ActivityCell)
    ELSE <<>>
\* the call of check_for_activity at the start of update()
ActivityAtUpdate == CheckForActivity
\* the cells notified at the start of update()
Posted == Flagged(flag) \cup (IF ch_flag THEN {ActivityCell} ELSE {})

\* WatchContext::update up to its first loop test: check_for_updates swaps
\* the atomic word for 0 and notifies the bridge cells of the bits that were
\* set, the channels' flag is swapped for false and the activity cell
\* notified if it was set, then the buffers are swapped
UpdateBegin ==
    /\ AtHome
    /\ flag' = 0
    /\ ch_flag' = FALSE
    /\ watchers' = [c \in DOMAIN watchers |->
                       IF c \in Posted THEN NoList ELSE watchers[c]]
    /\ dirty' = [w \in WatchIds |->
                    dirty[w] \/ obs[w] \cap Posted # {}]
    /\ LET pending == next_frame \o CheckForUpdates(flag, 0)
                                 \o ActivityAtUpdate IN
        /\ next_frame' = Swapped(pending, other_frame)[1]
        /\ current_frame' = Swapped(pending, other_frame)[2]
    /\ other_frame' = <<>>
    /\ limit' = Budget
    /\ limit0' = frame_limit
    /\ iter' = 1
    /\ ran' = <<>>
    /\ pc' = "loop"
    /\ watch_edges' = {}
    /\ Note("update", 0, 0)
    /\ UNCHANGED <<value, cycle, body, spawned, dest, frame_id,
                   total_watch_count, frame_limit, stack, current_arg, obs,
                   visited, root, fc_seen, ext, writer, bridge>>
    /\ id0' = frame_id
    /\ UNCHANGED <<pointers, holder, chan, sending, sent, received, wqueue>>

\* the loop test fails: update() stores the scratch buffer and returns (its
\* locals, moved out or dead, go back to their initial values)
UpdateReturn ==
    /\ pc = "loop"
    /\ LoopDone
    /\ other_frame' = current_frame
    /\ current_frame' = <<>>
    /\ limit' = NoLimit
    /\ pc' = "idle"
    /\ iter' = 0
    /\ limit0' = NoLimit
    /\ ran' = <<>>
    /\ watch_edges' = {}
    /\ ext' = NoExt
    /\ Note("update_return", 0, 0)
    /\ UNCHANGED <<value, watchers, cycle, body, spawned, dest, next_frame,
                   frame_id, total_watch_count, frame_limit, stack,
                   current_arg, obs, visited, root, fc_seen, dirty,
                   writer, sync>>
    /\ UNCHANGED apart

\* the frame is not empty and the limit counter has reached zero: the frame
\* is tracked and CycleDiagnostic::do_panic starts find_cycle
UpdatePanic ==
    /\ pc = "loop"
    /\ ~LoopDone
    /\ LimitReached
    /\ watch_edges' = Tracked
    /\ LET es == SortedEdges(Tracked) IN
        IF es = <<>>
        THEN pc' = "panicked" /\ root' = 0 /\ visited' = <<>>
        ELSE pc' = "find_cycle" /\ root' = 1 /\ visited' = StartRoot(es, 1)
    /\ fc_seen' = {}
    /\ Note("do_panic", 0, 0)
    /\ UNCHANGED <<value, watchers, cycle, body, spawned, dest, next_frame,
                   other_frame, current_frame, frame_id, total_watch_count,
                   frame_limit, limit, stack, current_arg, iter, limit0, ran,
                   obs, ext, dirty, writer, sync>>
    /\ UNCHANGED apart

\* One pass through the loops of CycleDiagnostic::find_cycle.  When it
\* returns, do_panic panics with the cycle left in visited.  The search is
\* deterministic in (root, visited): when it comes back to a configuration it
\* has been in, it never returns, which pc = "hung" records.
FindCycleStep ==
    /\ pc = "find_cycle"
    /\ LET nxt == FindCycleNext(SortedEdges(watch_edges), root, visited) IN
        /\ root' = nxt.root
        /\ visited' = nxt.visited
        /\ fc_seen' = fc_seen \cup {<<root, visited>>}
        /\ pc' = IF nxt.done THEN "panicked"
                 ELSE IF <<nxt.root, nxt.visited>> \in fc_seen'
                      THEN "hung" ELSE "find_cycle"
        /\ Note(IF nxt.done THEN "panic" ELSE "find_cycle", 0, 0)
    /\ UNCHANGED <<value, watchers, cycle, body, spawned, dest, next_frame,
                   other_frame, current_frame, frame_id, total_watch_count,
                   frame_limit, limit, stack, current_arg, iter, limit0, ran,
                   obs, watch_edges, ext, dirty, writer,
                   sync>>
    /\ UNCHANGED apart

\* the frame is not empty and may be drained
FrameStart ==
    /\ pc = "loop"
    /\ ~LoopDone
    /\ ~LimitReached
    /\ watch_edges' = Tracked
    /\ pc' = "drain"
    /\ Note("frame", 0, 0)
    /\ UNCHANGED <<value, watchers, cycle, body, spawned, dest, next_frame,
                   other_frame, current_frame, frame_id, total_watch_count,
                   frame_limit, limit, stack, current_arg, iter, limit0, ran,
                   obs, visited, root, fc_seen, ext, dirty,
                   writer, sync>>
    /\ UNCHANGED apart

\* the order of current_frame.drain(..)
LastItem(frame) == frame[Len(frame)]
NextItem(frame) == Head(frame)

HolderAliveAlways(w) == TRUE
\* the upgrade of the holder's weak pointer succeeds (always, for a closure
\* without a holder)
HolderAlive(w) == holder[w] = 0 \/ owned[holder[w]]

\* TriggeredWatch::execute / WatchRef::execute on the next item of the frame;
\* the closure of a watcher's watch returns at once, without calling the
\* body, when its holder is gone;
\* cap bounds the generation a watch may reach
Exec(cap) ==
    /\ pc = "drain"
    /\ ~Running
    /\ current_frame # <<>>
    /\ LET item == NextItem(current_frame) IN
        /\ current_frame' = Tail(current_frame)
        /\ IF IsFresh(item)
           THEN /\ item.cycle < cap
                /\ cycle' = [cycle EXCEPT ![item.w] = NextCycle(item.cycle)]
                /\ stack' = IF HolderAlive(item.w)
                            THEN Append(stack, NewFrame(item.w, body[item.w],
                                                        total_watch_count))
                            ELSE stack
                /\ ran' = Append(ran, item.w)
                /\ obs' = [obs EXCEPT ![item.w] = {}]
                /\ dirty' = [dirty EXCEPT ![item.w] = FALSE]
                /\ observed' = [m \in Metas |-> observed[m] \ {item.w}]
                /\ Note(IF HolderAlive(item.w) THEN "execute"
                        ELSE "execute_dead", item.w, item.cell)
           ELSE /\ Note("skip", item.w, item.cell)
                /\ UNCHANGED <<cycle, stack, ran, obs, dirty, observed>>
    /\ UNCHANGED <<diag, ext, writer, flag, next_index, index, mask,
                   flag_pole>>
    /\ UNCHANGED <<value, watchers, body, spawned, dest, next_frame,
                   other_frame, frame_id, total_watch_count, frame_limit,
                   limit, pc, current_arg, iter, limit0>>
    /\ UNCHANGED apart

ExecItem == Exec(MaxCycle)

NextIdTwice(id) == (id + 2) % FrameIdModulus
\* u8::wrapping_add(1) on frame_info.id
NextId(id) == (id + 1) % FrameIdModulus

\* the frame is drained: swap the buffers, advance the frame id, count down
FrameEnd ==
    /\ pc = "drain"
    /\ ~Running
    /\ current_frame = <<>>
    /\ next_frame' = Swapped(next_frame, current_frame)[1]
    /\ current_frame' = Swapped(next_frame, current_frame)[2]
    /\ frame_id' = NextId(frame_id)
    /\ limit' = IF limit = NoLimit THEN limit ELSE limit - 1
    /\ iter' = iter + 1
    /\ ran' = <<>>
    /\ pc' = "loop"
    /\ Note("frame_end", 0, 0)
    /\ writer' = [c \in Cells |-> 0]
    /\ UNCHANGED <<diag, ext, dirty, sync>>
    /\ UNCHANGED <<value, watchers, cycle, body, spawned, dest, other_frame,
                   total_watch_count, frame_limit, stack, current_arg, limit0,
                   obs>>
    /\ UNCHANGED apart


\* ------------------------------------------- library calls inside a closure
\* what a closure's step leaves alone in the scheduler
BodyFrame ==
    UNCHANGED <<cycle, body, spawned, other_frame, current_frame, frame_id,
                total_watch_count, frame_limit, limit, pc, iter, limit0, ran,
                diag, ext, sync>>

\* WatchedMeta::trigger on cell c by the running watch w
TriggerPush(c, w) == next_frame \o PushAll(Pushed(watchers[c], w), w, c)
\* WatchedMeta::trigger_external on cell c
ExternalPush(c) == next_frame \o PushAll(Pushed(watchers[c], 0), 0, c)

\* WatchedCore::get, WatchedCellCore::get, WatchedCellCore::watched, called
\* by the running closure
Get(c) ==
    /\ watchers' = [watchers EXCEPT ![c] = Watched(@, Top.w, Top.count)]
    /\ obs' = [obs EXCEPT ![Top.w] = @ \cup {c}]
    /\ stack' = Called
    /\ Note("get", Top.w, c)
    /\ BodyFrame
    /\ UNCHANGED <<dirty, writer>>
    /\ UNCHANGED <<value, dest, next_frame, current_arg>>
    /\ UNCHANGED apart

OpGet(c) == CanCall /\ Get(c)

\* WatchedMeta::trigger
OpTrigger(c) ==
    /\ CanCall
    /\ next_frame' = TriggerPush(c, Top.w)
    /\ watchers' = [watchers EXCEPT ![c] = NoList]
    /\ stack' = Called
    /\ Note("trigger", Top.w, c)
    /\ Notified(c)
    /\ UNCHANGED writer
    /\ BodyFrame
    /\ UNCHANGED <<value, dest, current_arg, obs>>
    /\ UNCHANGED apart

\* WatchedCore::get_mut / replace / take and WatchedCellCore::get_mut /
\* replace / take: trigger, watched, then the write
GetMut(c, v) ==
    /\ next_frame' = TriggerPush(c, Top.w)
    /\ watchers' = [watchers EXCEPT ![c] = TriggerThenWatched(Top.w, Top.count)]
    /\ value' = [value EXCEPT ![c] = v]
    /\ obs' = [obs EXCEPT ![Top.w] = @ \cup {c}]
    /\ stack' = Called
    /\ Note("get_mut", Top.w, c)
    /\ Notified(c)
    /\ Written(c)
    /\ BodyFrame
    /\ UNCHANGED <<dest, current_arg>>
    /\ UNCHANGED apart

OpGetMut(c, v) == CanCall /\ GetMut(c, v)

\* WatchedCellCore::set: trigger, then the write
OpSet(c, v) ==
    /\ CanCall
    /\ next_frame' = TriggerPush(c, Top.w)
    /\ watchers' = [watchers EXCEPT ![c] = TriggerOnly(Top.w, Top.count)]
    /\ value' = [value EXCEPT ![c] = v]
    /\ stack' = Called
    /\ Note("set", Top.w, c)
    /\ Notified(c)
    /\ Written(c)
    /\ BodyFrame
    /\ UNCHANGED <<dest, current_arg, obs>>
    /\ UNCHANGED apart

\* the test of set_if_neq: self.value != value
DiffersAlways(old, new) == TRUE
DiffersNever(old, new) == FALSE
Differs(old, new) == old # new

\* WatchedCore::set_if_neq and WatchedCellCore::set_if_neq
SetIfNeq(c, v) ==
    /\ IF Differs(value[c], v)
       THEN /\ value' = [value EXCEPT ![c] = v]
            /\ next_frame' = TriggerPush(c, Top.w)
            /\ watchers' = [watchers EXCEPT ![c] = TriggerOnly(Top.w, Top.count)]
            /\ Notified(c)
            /\ Written(c)
       ELSE UNCHANGED <<value, next_frame, watchers, dirty, writer>>
    /\ stack' = Called
    /\ NoteValue(IF Differs(value[c], v) THEN "set_if_neq"
                 ELSE "set_if_neq_same", Top.w, c, v)
    /\ BodyFrame
    /\ UNCHANGED <<dest, current_arg, obs>>
    /\ UNCHANGED apart

OpSetIfNeq(c, v) == CanCall /\ SetIfNeq(c, v)

\* WatchedCore::set_if_neq_external and WatchedCellCore::set_if_neq_external
\* from the top level
ExtSetIfNeq(c, v) ==
    /\ AtHome \/ Dropped
    /\ IF Differs(value[c], v)
       THEN /\ value' = [value EXCEPT ![c] = v]
            /\ next_frame' = ExternalPush(c)
            /\ watchers' = [watchers EXCEPT ![c] = NoList]
            /\ ext' = [c |-> c, v |-> v]
            /\ Notified(c)
       ELSE UNCHANGED <<value, next_frame, watchers, ext, dirty>>
    /\ NoteValue(IF Differs(value[c], v) THEN "set_if_neq_external"
                 ELSE "set_if_neq_external_same", 0, c, v)
    /\ UNCHANGED <<diag, writer, sync>>
    /\ UNCHANGED <<cycle, body, spawned, dest, other_frame, current_frame,
                   frame_id, total_watch_count, frame_limit, limit, pc, stack,
                   current_arg, iter, limit0, ran, obs>>
    /\ UNCHANGED apart

\* WatchedMeta::trigger_external called by code inside a closure
OpTriggerExternal(c) ==
    /\ CanCall
    /\ next_frame' = ExternalPush(c)
    /\ watchers' = [watchers EXCEPT ![c] = NoList]
    /\ stack' = Called
    /\ Note("trigger_external", Top.w, c)
    /\ Notified(c)
    /\ UNCHANGED writer
    /\ BodyFrame
    /\ UNCHANGED <<value, dest, current_arg, obs>>
    /\ UNCHANGED apart

\* what Drop for WatchedMeta appends to the pending buffer
DropSilent(c) == next_frame
DropPush(c) == ExternalPush(c)

\* A cell is destroyed, at the top level or inside a closure: Drop for
\* WatchedMeta runs trigger_external and the WatchSet is freed.  The cell id
\* then stands for a new cell (as after `x = Watched::new(0)`), which no
\* watch has observed.
DropCell(c) ==
    /\ AtHome \/ CanCall
    /\ next_frame' = DropPush(c)
    /\ watchers' = [watchers EXCEPT ![c] = NoList]
    /\ value' = [value EXCEPT ![c] = 0]
    /\ obs' = [w \in WatchIds |-> obs[w] \ {c}]
    /\ stack' = IF Running THEN Called ELSE stack
    /\ Note("drop", IF Running THEN Top.w ELSE 0, c)
    /\ Notified(c)
    /\ BodyFrame
    /\ UNCHANGED <<dest, current_arg, writer>>
    /\ UNCHANGED apart

\* WatchedMeta::trigger_auto: the in-watch trigger for the watch in the
\* thread-local slot, the external trigger when the slot is empty
OpTriggerAuto(c) ==
    /\ CanCall
    /\ next_frame' = IF current_arg # 0 THEN TriggerPush(c, current_arg)
                     ELSE ExternalPush(c)
    /\ watchers' = [watchers EXCEPT ![c] = NoList]
    /\ stack' = Called
    /\ Note(IF current_arg # 0 THEN "trigger_auto" ELSE "trigger_auto_empty",
            Top.w, c)
    /\ Notified(c)
    /\ UNCHANGED writer
    /\ BodyFrame
    /\ UNCHANGED <<value, dest, current_arg, obs>>
    /\ UNCHANGED apart

\* total_watch_count of the OwnedWatchArg in the slot: the count of the
\* running closure that put it there
SlotCount ==
    LET F == {i \in 1..Len(stack) : stack[i].w = current_arg}
    IN  IF F = {} THEN total_watch_count
        ELSE stack[CHOOSE i \in F : TRUE].count

\* WatchedMeta::watched_auto: watched() for the watch in the thread-local
\* slot, nothing when the slot is empty
OpWatchedAuto(c) ==
    /\ CanCall
    /\ IF current_arg # 0
       THEN /\ watchers' = [watchers EXCEPT ![c] =
                               Watched(@, current_arg, SlotCount)]
            /\ obs' = [obs EXCEPT ![current_arg] = @ \cup {c}]
            /\ Note("watched_auto", Top.w, c)
       ELSE /\ Note("watched_auto_empty", Top.w, c)
            /\ UNCHANGED <<watchers, obs>>
    /\ stack' = Called
    /\ BodyFrame
    /\ UNCHANGED <<value, dest, next_frame, current_arg, dirty, writer>>
    /\ UNCHANGED apart

\* WatchArg::use_as_current up to the call of its argument f
OpUseAsCurrent ==
    /\ CanCall
    /\ current_arg' = Top.w
    /\ stack' = [Called EXCEPT ![Len(stack)].scopes = Append(@, current_arg)]
    /\ Note("use_as_current", Top.w, 0)
    /\ BodyFrame
    /\ UNCHANGED <<dirty, writer>>
    /\ UNCHANGED <<value, watchers, dest, next_frame, obs>>
    /\ UNCHANGED apart

\* f has returned: WatchArg::use_as_current puts the previous value back
OpEndUse ==
    /\ Running
    /\ Top.scopes # <<>>
    /\ current_arg' = Top.scopes[Len(Top.scopes)]
    /\ stack' = [stack EXCEPT ![Len(stack)].scopes =
                    SubSeq(@, 1, Len(@) - 1)]
    /\ Note("end_use", Top.w, 0)
    /\ BodyFrame
    /\ UNCHANGED <<dirty, writer>>
    /\ UNCHANGED <<value, watchers, dest, next_frame, obs>>
    /\ UNCHANGED apart

\* A panic in a closure unwinds to a catch_unwind at the top level: the
\* frames of the closures and of update() are dropped
PanicOut(op, m) ==
    /\ stack' = <<>>
    /\ pc' = "idle"
    /\ current_frame' = <<>>
    /\ limit' = NoLimit
    /\ iter' = 0
    /\ limit0' = NoLimit
    /\ ran' = <<>>
    /\ watch_edges' = {}
    /\ writer' = [c \in Cells |-> 0]
    /\ Note(op, Top.w, m)
    /\ UNCHANGED <<value, cycle, body, spawned, dest, next_frame,
                   other_frame, frame_id, total_watch_count, frame_limit,
                   current_arg, visited, root, fc_seen, ext, dirty>>
    /\ UNCHANGED apart

TakeKeeps(slot) == slot
\* Cell::take on the thread-local slot: what it leaves there
Take(slot) == 0

\* WatchArg::try_with_current up to the call of its argument f: the slot is
\* taken, and f is called only if it held a watch; on an empty slot the
\* call returns None at once.  The OwnedWatchArg is moved out of the slot
\* and back as a whole, so it is known by its watch.
OpTryWithCurrent ==
    /\ CanCall
    /\ current_arg' = Take(current_arg)
    /\ IF current_arg # 0
       THEN /\ stack' = [Called EXCEPT
                            ![Len(stack)].scopes = Append(@, current_arg)]
            /\ Note("try_with_current", Top.w, 0)
       ELSE /\ stack' = Called
            /\ Note("try_with_current_none", Top.w, 0)
    /\ BodyFrame
    /\ UNCHANGED <<value, watchers, dest, next_frame, obs, dirty, writer>>
    /\ UNCHANGED apart

\* The user code f called by use_as_current or try_with_current panics.
\* Neither function holds a guard, so nothing is stored into the slot on the
\* way out.
Unwind ==
    /\ Running
    /\ Top.scopes # <<>>
    /\ PanicOut("unwind", 0)
    /\ UNCHANGED <<watchers, obs, sync>>
    /\ UNCHANGED apart

\* SyncWatchedMeta::watched called by the running closure on meta m.  The
\* test `!self.index.get() == usize::MAX` negates the index bitwise before
\* it compares; `index + 1 % FLAG_COUNT` adds 1 % FLAG_COUNT to the index;
\* `1 << index` and `sctx.watched[..]` panic when the index is not below
\* FLAG_COUNT (shift overflow in a debug build, index out of bounds).
SyncWatched(m) ==
    /\ CanCall
    /\ observed' = [observed EXCEPT ![m] = @ \cup {Top.w}]
    /\ flag' = flag
    /\ LET alloc == Not(index[m]) = UsizeMax
           idx   == IF alloc THEN next_index ELSE index[m]
       IN  IF idx >= FlagCount
           THEN /\ PanicOut("sync_watched_panic", m)
                /\ next_index' = IF alloc THEN next_index + (1 % FlagCount)
                                 ELSE next_index
                /\ UNCHANGED <<watchers, obs, index, mask, flag_pole>>
           ELSE /\ IF alloc
                   THEN /\ next_index' = next_index + (1 % FlagCount)
                        /\ mask' = [mask EXCEPT ![m] = 2 ^ idx]
                        /\ flag_pole' = [flag_pole EXCEPT ![m] = TRUE]
                        /\ index' = [index EXCEPT ![m] = idx]
                   ELSE UNCHANGED <<next_index, index, mask, flag_pole>>
                /\ watchers' = [watchers EXCEPT ![BridgeCell(idx)] =
                                   Watched(@, Top.w, Top.count)]
                /\ obs' = [obs EXCEPT ![Top.w] = @ \cup {BridgeCell(idx)}]
                /\ stack' = Called
                /\ Note("sync_watched", Top.w, m)
                /\ UNCHANGED <<cycle, body, spawned, other_frame,
                               current_frame, frame_id, total_watch_count,
                               frame_limit, limit, pc, iter, limit0, ran,
                               diag, ext, value, dest, next_frame,
                               current_arg, dirty, writer>>
    /\ UNCHANGED apart

\* drop of the WatchContext by its owner, outside update(): the pending
\* buffers, the SyncContext and the atomic word lose their last strong
\* reference; the Weak handles in WatchSets and flag poles stay behind
DropContext ==
    /\ AtHome
    /\ pc' = "dropped"
    /\ next_frame' = <<>>
    /\ other_frame' = <<>>
    /\ flag' = 0
    /\ Note("drop_context", 0, 0)
    /\ UNCHANGED <<value, watchers, cycle, body, spawned, dest,
                   current_frame, frame_id, total_watch_count, frame_limit,
                   limit, stack, current_arg, iter, limit0, ran, obs, diag,
                   ext, dirty, writer, bridge>>
    /\ UNCHANGED apart

UpgradeAny(m) == TRUE
\* FlagPole::get followed by Weak::upgrade in SyncTrigger::trigger: the pole
\* holds a handle and the word is still owned by a living context
Upgrade(m) == flag_pole[m] /\ pc # "dropped"

\* SyncTrigger::trigger on a trigger of meta m, on any thread at any time:
\* fetch_or of the mask if the flag pole's handle upgrades
SyncTrigger(m) ==
    /\ flag' = IF Upgrade(m) THEN Or(flag, mask[m]) ELSE flag
    /\ Note(IF Upgrade(m) THEN "sync_trigger" ELSE "sync_trigger_inert", 0, m)
    /\ UNCHANGED <<value, watchers, cycle, body, spawned, dest, next_frame,
                   other_frame, current_frame, frame_id, total_watch_count,
                   frame_limit, limit, pc, stack, current_arg, iter, limit0,
                   ran, obs, diag, ext, dirty, writer, bridge>>
    /\ UNCHANGED apart

\* the closure of OuterData::init: root.value = *root.inner.value
OpCopy ==
    /\ Running
    /\ body[Top.w] = "copy" /\ Top.left > 0
    /\ watchers' = [watchers EXCEPT ![Source] = Watched(@, Top.w, Top.count)]
    /\ obs' = [obs EXCEPT ![Top.w] = @ \cup {Source}]
    /\ dest' = value[Source]
    /\ stack' = Called
    /\ Note("copy", Top.w, Source)
    /\ BodyFrame
    /\ UNCHANGED <<dirty, writer>>
    /\ UNCHANGED <<value, next_frame, current_arg>>
    /\ UNCHANGED apart

\* ------------------------------------- the closures of the examples
\* the cell an example closure reads first and the cell it writes: watch 1 of
\* KeepBalanced does left := right, watch 2 right := left; the MutsTwice
\* watch w has its own cell w
ReadCell(w) == IF body[w] = "muts" THEN w ELSE IF w = 1 THEN Right ELSE Left
WriteCell(w) == IF body[w] = "muts" THEN w ELSE IF w = 1 THEN Left ELSE Right

\* the example closure on top of the stack is at its k-th last call
AtCall(kinds, k) == Running /\ body[Top.w] \in kinds /\ Top.left = k

\* add_watcher of a KeepBalanced (two watches of the same kind) or of
\* MutsTwice holders, from the top level
AddExample(b) ==
    /\ ~Running
    /\ spawned < (IF b = "muts" THEN NumCells ELSE 2)
    /\ spawned > 0 => body[1] = b
    /\ AddWatch(b)

\* *root.right (or *root.left): Deref of the cell read
ExRead ==
    /\ AtCall({"assign", "neq"}, 2)
    /\ Get(ReadCell(Top.w))

\* *root.left = ...: DerefMut of the cell written, then the store
ExAssign ==
    /\ AtCall({"assign"}, 1)
    /\ GetMut(WriteCell(Top.w), value[ReadCell(Top.w)])

\* root.left.set_if_neq(..., ctx)
ExSetIfNeq ==
    /\ AtCall({"neq"}, 1)
    /\ SetIfNeq(WriteCell(Top.w), value[ReadCell(Top.w)])

\* root.value += 1, the first or the second one
ExIncrement ==
    /\ \E k \in 1..ScriptLen : AtCall({"muts"}, k)
    /\ GetMut(WriteCell(Top.w), value[WriteCell(Top.w)] + 1)

\* one external write between two completed update() calls, to a cell of a
\* holder that exists, that is, whose watches are spawned
ExtOnce(c, v) ==
    /\ ext = NoExt
    /\ spawned > 0
    /\ IF body[1] = "muts" THEN c <= spawned
       ELSE spawned = 2 /\ c \in {Left, Right}
    /\ ExtGetMut(c, v)

\* the closure returns to WatchRef::execute
BodyReturn ==
    /\ Running
    /\ Top.scopes = <<>>
    /\ body[Top.w] # "free" => Top.left = 0
    /\ stack' = Caller
    /\ Note("return", Top.w, 0)
    /\ BodyFrame
    /\ UNCHANGED <<dirty, writer>>
    /\ UNCHANGED <<value, watchers, dest, next_frame, current_arg, obs>>
    /\ UNCHANGED apart

\* ------------------------------------------------------------ pointer.rs
\* the scheduler, which the calls of pointer.rs and the sender threads leave
\* alone
scheduler == <<value, watchers, cycle, body, spawned, dest, next_frame,
               other_frame, current_frame, frame_id, total_watch_count,
               frame_limit, limit, pc, stack, current_arg, iter, limit0, ran,
               obs, diag, ext, dirty, writer, sync>>

\* the innermost running scope
Scope == scopes[Len(scopes)]

GuardFreeAny == TRUE
\* the assert_eq! of BorrowGuard::new and BorrowGuard::block
GuardFree == borrow_state = NothingBorrowed

AllowedInScope(p) == borrow_state # NothingBorrowed
\* BorrowGuard::assert_owned_borrows_allowed returns without a panic
Allowed(p) ==
    \/ borrow_state = BorrowsBlocked
    \/ borrow_state.kind = "Borrowed" /\ borrow_state.ptr # p

\* A panic raised inside the running closures.  It is either caught by a
\* catch_unwind inside the innermost scope, or it unwinds through every
\* scope, and Drop for BorrowGuard runs for each of them.
PanicUnwind(caught) ==
    IF caught \/ scopes = <<>>
    THEN UNCHANGED <<borrow_state, scopes>>
    ELSE /\ scopes' = <<>>
         /\ borrow_state' = NothingBorrowed

\* BorrowedPointer::upgrade on a borrow of pointer p, up to the call of func
PtrUpgrade(p, caught) ==
    /\ IF ~owned[p]
       THEN /\ ~caught
            /\ Note("upgrade_dead", 0, p)
            /\ UNCHANGED <<borrow_state, scopes>>
       ELSE IF GuardFree
       THEN /\ ~caught
            /\ borrow_state' = Borrowed(p)
            /\ scopes' = Append(scopes, [kind |-> "upgrade", ptr |-> p])
            /\ Note("upgrade", 0, p)
       ELSE /\ Note("upgrade_panic", 0, p)
            /\ PanicUnwind(caught)
    /\ UNCHANGED <<owned, pdata, holder, channel, aside, scheduler>>

\* BorrowedPointer::allow_refs, up to the call of func
PtrAllowRefs(caught) ==
    /\ IF GuardFree
       THEN /\ ~caught
            /\ borrow_state' = BorrowsBlocked
            /\ scopes' = Append(scopes, [kind |-> "allow_refs", ptr |-> 0])
            /\ Note("allow_refs", 0, 0)
       ELSE /\ Note("allow_refs_panic", 0, 0)
            /\ PanicUnwind(caught)
    /\ UNCHANGED <<owned, pdata, holder, channel, aside, scheduler>>

\* func returns: upgrade / allow_refs drops its guard
PtrEnd ==
    /\ scopes # <<>>
    /\ scopes' = SubSeq(scopes, 1, Len(scopes) - 1)
    /\ borrow_state' = NothingBorrowed
    /\ Note("scope_end", 0, Scope.ptr)
    /\ UNCHANGED <<owned, pdata, holder, channel, aside, scheduler>>

\* func of upgrade writes through the reference it was given
PtrWrite(v) ==
    /\ scopes # <<>>
    /\ Scope.kind = "upgrade"
    /\ pdata' = [pdata EXCEPT ![Scope.ptr] = v]
    /\ Note("deref_mut", 0, Scope.ptr)
    /\ UNCHANGED <<borrow_state, scopes, owned, holder, channel, aside, scheduler>>

\* OwnedPointer::as_ref (mut = FALSE) and OwnedPointer::as_mut followed by
\* a write of v, on the OwnedPointer p
PtrAs(p, mut, v, caught) ==
    /\ owned[p]
    /\ IF Allowed(p)
       THEN /\ ~caught
            /\ pdata' = IF mut THEN [pdata EXCEPT ![p] = v] ELSE pdata
            /\ Note(IF mut THEN "as_mut" ELSE "as_ref", 0, p)
            /\ UNCHANGED <<borrow_state, scopes>>
       ELSE /\ Note("as_panic", 0, p)
            /\ PanicUnwind(caught)
            /\ UNCHANGED pdata
    /\ UNCHANGED <<owned, holder, channel, aside, scheduler>>

\* the OwnedPointer p is dropped; a running upgrade of p keeps the value
\* alive through its own Rc until func returns
PtrDrop(p) ==
    /\ owned[p]
    /\ owned' = [owned EXCEPT ![p] = FALSE]
    /\ Note("drop_owned", 0, p)
    /\ UNCHANGED <<borrow_state, scopes, pdata, holder, channel, aside, scheduler>>

\* the holder of the watcher at pointer p is dropped, at the top level or by
\* a running closure
DropHolder(p) ==
    /\ AtHome \/ CanCall
    /\ owned[p]
    /\ owned' = [owned EXCEPT ![p] = FALSE]
    /\ stack' = IF Running THEN Called ELSE stack
    /\ Note("drop_holder", IF Running THEN Top.w ELSE 0, p)
    /\ UNCHANGED <<value, watchers, cycle, body, spawned, dest, next_frame,
                   other_frame, current_frame, frame_id, total_watch_count,
                   frame_limit, limit, pc, current_arg, iter, limit0, ran,
                   obs, diag, ext, dirty, writer, sync>>
    /\ UNCHANGED <<borrow_state, scopes, pdata, holder, channel, aside>>

\* ----------------------------------------------------------- channels.rs
\* the watch closure of the channel's documentation: it calls recv() until
\* the channel is empty.  WatchedReceiver::recv subscribes the running watch
\* to the activity cell and calls try_recv
OpRecv ==
    /\ Running
    /\ body[Top.w] = "recv" /\ Top.left > 0
    /\ watchers' = [watchers EXCEPT ![ActivityCell] =
                       Watched(@, Top.w, Top.count)]
    /\ obs' = [obs EXCEPT ![Top.w] = @ \cup {ActivityCell}]
    /\ IF chan # <<>>
       THEN /\ received' = Append(received, Head(chan))
            /\ chan' = Tail(chan)
            /\ stack' = stack
            /\ Note("recv", Top.w, ActivityCell)
       ELSE /\ stack' = [stack EXCEPT ![Len(stack)].left = 0]
            /\ Note("recv_empty", Top.w, ActivityCell)
            /\ UNCHANGED <<chan, received>>
    /\ BodyFrame
    /\ UNCHANGED <<dirty, writer, value, dest, next_frame, current_arg>>
    /\ UNCHANGED <<pointers, holder, ch_flag, sending, sent, aside>>

SendFirstTrigger == "trigger"
\* the first of the two steps of WatchedSender::send: self.inner.send(t)
SendFirst == "push"

\* One step of WatchedSender::send on thread t: the push of the value onto
\* the channel, then AtomicWatchedMetaTrigger::trigger.  A value is the
\* thread with the number of the send.
SendStep(t) ==
    /\ sending[t].stage \in {0, 1}
    /\ sending[t].stage = 0 => sending[t].n < MaxSends
    /\ LET st   == sending[t].stage
           n    == IF st = 0 THEN sending[t].n + 1 ELSE sending[t].n
           step == IF st = 0 THEN SendFirst
                   ELSE IF SendFirst = "push" THEN "trigger" ELSE "push"
       IN  /\ sending' = [sending EXCEPT ![t] = [stage |-> 1 - st, n |-> n]]
           /\ IF step = "push"
              THEN /\ chan' = Append(chan, <<t, n>>)
                   /\ sent' = Append(sent, <<t, n>>)
                   /\ ch_flag' = ch_flag
                   /\ Note("send_push", 0, t)
              ELSE /\ ch_flag' = TRUE
                   /\ Note("send_trigger", 0, t)
                   /\ UNCHANGED <<chan, sent>>
    /\ UNCHANGED <<received, pointers, holder, aside, scheduler>>

\* Drop for WatchedSender on thread t: one more trigger
SenderDrop(t) ==
    /\ sending[t].stage = 0
    /\ sending' = [sending EXCEPT ![t].stage = 2]
    /\ ch_flag' = TRUE
    /\ Note("sender_drop", 0, t)
    /\ UNCHANGED <<chan, sent, received, pointers, holder, aside,
                   scheduler>>

\* the receiving watch runs once for its spawn and at most once for every
\* trigger of a sender
RecvCap == NumSenders * (MaxSends + 1) + 2
ExecRecv == Exec(RecvCap)

\* -------------------------------------------------------------- queue.rs
\* A consumer is a watch whose closure calls handle_item once, first thing,
\* and may then push an item.  Items are numbered in the order of their push.

\* the watches whose latest execution read cell c
Subscribed(c) == {w \in WatchIds : c \in obs[w]}

NeedsPopAlways == TRUE
\* the test of WatchedQueue::handle_item: nothing is held, or what is held
\* was popped under another frame id
NeedsPop == current_data = 0 \/ popped_frame_id # frame_id

\* WatchedQueue::handle_item called by the running closure; more: the
\* closure goes on to push an item
HandleItem(more) ==
    /\ Running
    /\ body[Top.w] = "consumer" /\ Top.left = ScriptLen
    /\ more => pushes < MaxItems
    /\ LET seen == Watched(watchers[QueueCell], Top.w, Top.count)
           pop  == NeedsPop
           item == IF ~pop THEN current_data
                   ELSE IF queue # <<>> THEN Head(queue) ELSE 0
           trig == pop /\ item # 0
       IN  /\ watchers' = [watchers EXCEPT ![QueueCell] =
                              IF trig THEN NoList ELSE seen]
           /\ next_frame' =
                 IF trig
                 THEN next_frame \o PushAll(Pushed(seen, 0), 0, QueueCell)
                 ELSE next_frame
           /\ queue' = IF pop /\ queue # <<>> THEN Tail(queue) ELSE queue
           /\ popped_frame_id' = IF pop THEN frame_id ELSE popped_frame_id
           /\ current_data' = item
           /\ handled' = IF item # 0
                         THEN [handled EXCEPT ![Top.w] = Append(@, item)]
                         ELSE handled
           /\ pops' = IF trig
                      THEN Append(pops, [item |-> item, id |-> frame_id,
                                         w |-> Top.w])
                      ELSE pops
           /\ obs' = [obs EXCEPT ![Top.w] = @ \cup {QueueCell}]
           /\ dirty' = IF trig
                       THEN [w \in WatchIds |->
                               dirty[w] \/ QueueCell \in obs'[w]]
                       ELSE dirty
           /\ NoteValue(IF ~pop THEN "handle_item_same"
                        ELSE IF item # 0 THEN "handle_item_pop"
                        ELSE "handle_item_none", Top.w, QueueCell, item)
    /\ stack' = [stack EXCEPT ![Len(stack)].left = IF more THEN 1 ELSE 0]
    /\ BodyFrame
    /\ UNCHANGED <<value, dest, current_arg, writer>>
    /\ UNCHANGED <<pointers, holder, channel, pushes, subs, id0>>

\* WatchedQueue::push called by the running closure after its handle_item
QueuePush ==
    /\ Running
    /\ body[Top.w] = "consumer" /\ Top.left = 1
    /\ pushes < MaxItems
    /\ queue' = Append(queue, pushes + 1)
    /\ pushes' = pushes + 1
    /\ subs' = [subs EXCEPT ![pushes + 1] = Subscribed(QueueCell) \ {Top.w}]
    /\ next_frame' = TriggerPush(QueueCell, Top.w)
    /\ watchers' = [watchers EXCEPT ![QueueCell] = NoList]
    /\ Notified(QueueCell)
    /\ stack' = Called
    /\ Note("push", Top.w, QueueCell)
    /\ BodyFrame
    /\ UNCHANGED <<value, dest, current_arg, obs, writer>>
    /\ UNCHANGED <<pointers, holder, channel, current_data, popped_frame_id,
                   handled, pops, id0>>

\* WatchedQueue::push_external from the top level
QueuePushExternal ==
    /\ AtHome
    /\ pushes < MaxItems
    /\ queue' = Append(queue, pushes + 1)
    /\ pushes' = pushes + 1
    /\ subs' = [subs EXCEPT ![pushes + 1] = Subscribed(QueueCell)]
    /\ next_frame' = ExternalPush(QueueCell)
    /\ watchers' = [watchers EXCEPT ![QueueCell] = NoList]
    /\ Notified(QueueCell)
    /\ Note("push_external", 0, QueueCell)
    /\ BodyFrame
    /\ UNCHANGED <<value, dest, current_arg, obs, writer, stack>>
    /\ UNCHANGED <<pointers, holder, channel, current_data, popped_frame_id,
                   handled, pops, id0>>

\* a consumer runs once for its spawn and at most once for every push and
\* every pop
QueueCap == 2 * MaxItems + 2
ExecQueue == Exec(QueueCap)

\* ------------------------------------------------- one WatchSet by itself
\* The WatchSet of one cell that is never notified.  The closures of
\* SetWatches watches call watched() on it, any number of times in an
\* execution, and the watches are executed again for other reasons; of the
\* scheduler only the generations, the watch counter and the running
\* closures are kept.
SetWatches == MaxWatches + 1
SetIds == 1..SetWatches

\* what these steps leave alone
SetFrame ==
    UNCHANGED <<value, body, dest, next_frame, other_frame, current_frame,
                frame_id, frame_limit, limit, pc, current_arg, iter,
                limit0, ran, obs, diag, ext, dirty, writer, sync, apart>>

\* WatchContext::add_watch_raw at the top level or in a running closure:
\* the watch is allocated and counted and its closure is called
SetSpawn ==
    /\ spawned < SetWatches
    /\ spawned' = spawned + 1
    /\ cycle' = [cycle EXCEPT ![spawned + 1] = NextCycle(0)]
    /\ total_watch_count' = total_watch_count + 1
    /\ stack' = Append(stack, NewFrame(spawned + 1, "free", total_watch_count'))
    /\ Note("spawn", spawned + 1, 0)
    /\ UNCHANGED watchers
    /\ SetFrame

\* WatchRef::execute by update() on a fresh reference to watch w
SetExecute(w) ==
    /\ ~Running
    /\ cycle[w] \in 1..(MaxCycle - 1)
    /\ cycle' = [cycle EXCEPT ![w] = NextCycle(@)]
    /\ stack' = Append(stack, NewFrame(w, "free", total_watch_count))
    /\ Note("execute", w, 0)
    /\ UNCHANGED <<watchers, spawned, total_watch_count>>
    /\ SetFrame

\* WatchedMeta::watched by the running closure
SetWatched ==
    /\ Running
    /\ watchers' = [watchers EXCEPT ![Source] = Watched(@, Top.w, Top.count)]
    /\ Note(IF SquashDue(watchers[Source], TRUE, Top.count)
            THEN "add_squash" ELSE "add", Top.w, Source)
    /\ UNCHANGED <<cycle, spawned, total_watch_count, stack>>
    /\ SetFrame

\* the running closure returns
SetReturn ==
    /\ Running
    /\ stack' = Caller
    /\ Note("return", Top.w, 0)
    /\ UNCHANGED <<watchers, cycle, spawned, total_watch_count>>
    /\ SetFrame

\* ------------------------------------------------------- specifications
\* the scheduler's own steps
Schedule ==
    \/ UpdateBegin
    \/ UpdateReturn
    \/ FrameStart
    \/ ExecItem
    \/ FrameEnd
    \/ BodyReturn

\* Closures that use the explicit-context calls.  With the default limit of
\* 1024 frames and at most MaxCycle executions per watch the limit counter
\* never reaches zero, so update() never takes its panic branch here.
Next ==
    \/ Schedule
    \/ \E b \in Bodies : AddWatch(b)
    \/ \E c \in Cells : \E v \in ValuesOf(c) : ExtGetMut(c, v)
    \/ \E c \in Cells : OpGet(c)
    \/ \E c \in Cells : OpTrigger(c)
    \/ \E c \in Cells : \E v \in ValuesOf(c) : OpGetMut(c, v)
    \/ \E c \in Cells : \E v \in ValuesOf(c) : OpSet(c, v)
    \/ \E c \in Cells : \E v \in ValuesOf(c) : OpSetIfNeq(c, v)
    \/ \E c \in Cells : OpTriggerExternal(c)
    \/ OpCopy

Spec == Init /\ [][Next]_vars

\* Closures that use the thread-local current watch (the _auto calls inside
\* and outside WatchArg::use_as_current)
NextAuto ==
    \/ Schedule
    \/ AddWatch("free")
    \/ \E c \in Cells : ExtGetMut(c, 0)
    \/ \E c \in Cells : OpGet(c)
    \/ \E c \in Cells : OpTriggerExternal(c)
    \/ \E c \in Cells : OpTriggerAuto(c)
    \/ OpUseAsCurrent
    \/ OpEndUse

SpecAuto == Init /\ [][NextAuto]_vars

\* Contexts whose frame limit is set by the program
NextLimit ==
    \/ Schedule
    \/ UpdatePanic
    \/ FindCycleStep
    \/ \E l \in {NoLimit} \cup (0..MaxLimit) : SetFrameLimit(l)
    \/ AddWatch("free")
    \/ \E c \in Cells : ExtGetMut(c, 0)
    \/ \E c \in Cells : OpGet(c)
    \/ \E c \in Cells : OpTrigger(c)

SpecLimit == Init /\ [][NextLimit]_vars

\* The documentation's examples under a frame limit set by the program.
\* A watch may run MaxLimit times more than elsewhere, so that the limit is
\* what stops a cycle.
NextExamples ==
    \/ UpdateBegin
    \/ UpdateReturn
    \/ FrameStart
    \/ Exec(MaxCycle + MaxLimit)
    \/ FrameEnd
    \/ BodyReturn
    \/ UpdatePanic
    \/ FindCycleStep
    \/ \E l \in 0..MaxLimit : SetFrameLimit(l)
    \/ \E b \in Examples : AddExample(b)
    \/ \E c \in Cells : \E v \in 0..MaxValue : ExtOnce(c, v)
    \/ ExRead
    \/ ExAssign
    \/ ExSetIfNeq
    \/ ExIncrement

SpecExamples == Init /\ [][NextExamples]_vars

\* Closures whose user code panics inside use_as_current or
\* try_with_current, in a program that catches the panic and goes on
NextScope ==
    \/ Schedule
    \/ AddWatch("free")
    \/ \E c \in Cells : ExtGetMut(c, 0)
    \/ \E c \in Cells : OpGet(c)
    \/ \E c \in Cells : OpTriggerAuto(c)
    \/ OpUseAsCurrent
    \/ OpTryWithCurrent
    \/ OpEndUse
    \/ Unwind

SpecScope == Init /\ [][NextScope]_vars

\* Closures that observe SyncWatchedMeta values, whose triggers are invoked
\* by other threads
NextSync ==
    \/ DropContext
    \/ Schedule
    \/ AddWatch("free")
    \/ \E c \in Cells : ExtGetMut(c, 0)
    \/ \E c \in Cells : OpGet(c)
    \/ \E m \in Metas : SyncWatched(m)
    \/ \E m \in Metas : SyncTrigger(m)

SpecSync == Init /\ [][NextSync]_vars

\* Closures that read cells, and cells that are destroyed: the only
\* notifications are those of Drop
NextDrop ==
    \/ Schedule
    \/ AddWatch("free")
    \/ \E c \in Cells : OpGet(c)
    \/ \E c \in Cells : DropCell(c)

SpecDrop == Init /\ [][NextDrop]_vars

\* Notifications of every kind: in a closure and from the top level, with
\* the context alive and after it has been dropped
NextNotify ==
    \/ Schedule
    \/ DropContext
    \/ AddWatch("free")
    \/ \E c \in Cells : OpGet(c)
    \/ \E c \in Cells : OpTrigger(c)
    \/ \E c \in Cells : \E v \in ValuesOf(c) : OpGetMut(c, v)
    \/ \E c \in Cells : \E v \in ValuesOf(c) : OpSetIfNeq(c, v)
    \/ \E c \in Cells : \E v \in ValuesOf(c) : ExtSetIfNeq(c, v)
    \/ \E c \in Cells : \E v \in ValuesOf(c) : ExtGetMut(c, v)

SpecNotify == Init /\ [][NextNotify]_vars

\* A watched channel: sender threads, and watches that receive
NextChannel ==
    \/ UpdateBegin
    \/ UpdateReturn
    \/ FrameStart
    \/ ExecRecv
    \/ FrameEnd
    \/ BodyReturn
    \/ AddWatch("recv")
    \/ OpRecv
    \/ \E t \in Senders : SendStep(t)
    \/ \E t \in Senders : SenderDrop(t)

SpecChannel == Init /\ [][NextChannel]_vars

\* Watchers whose holders are dropped at any time
NextHolder ==
    \/ Schedule
    \/ \E p \in Pointers : AddWatcher(p)
    \/ \E p \in Pointers : DropHolder(p)
    \/ \E c \in Cells : OpGet(c)
    \/ \E c \in Cells : OpTrigger(c)
    \/ \E c \in Cells : ExtGetMut(c, 0)

SpecHolder == Init /\ [][NextHolder]_vars

\* The calls of pointer.rs on one thread, nested in every way
NextPointer ==
    \/ \E p \in Pointers : \E caught \in BOOLEAN : PtrUpgrade(p, caught)
    \/ \E caught \in BOOLEAN : PtrAllowRefs(caught)
    \/ PtrEnd
    \/ \E v \in 0..MaxValue : PtrWrite(v)
    \/ \E p \in Pointers : \E mut, caught \in BOOLEAN :
          \E v \in 0..MaxValue : PtrAs(p, mut, v, caught)
    \/ \E p \in Pointers : PtrDrop(p)

SpecPointer == Init /\ [][NextPointer]_vars

\* the frame ids a context may have when the program gets to the calls
\* modelled here: the first, and the last two before the u8 wraps
FrameIdStarts == {0, FrameIdModulus - 2, FrameIdModulus - 1}

InitFrame == \E id \in FrameIdStarts : InitOf(id, WatchIds)

\* Contexts of any age: spawns, notifications and update()
NextFrame ==
    \/ Schedule
    \/ AddWatch("free")
    \/ \E c \in Cells : OpGet(c)
    \/ \E c \in Cells : OpTrigger(c)
    \/ \E c \in Cells : ExtGetMut(c, 0)

SpecFrame == InitFrame /\ [][NextFrame]_vars

\* A WatchedQueue and its consumers
NextQueue ==
    \/ UpdateBegin
    \/ UpdateReturn
    \/ FrameStart
    \/ ExecQueue
    \/ FrameEnd
    \/ BodyReturn
    \/ AddWatch("consumer")
    \/ \E more \in BOOLEAN : HandleItem(more)
    \/ QueuePush
    \/ QueuePushExternal

SpecQueue == Init /\ [][NextQueue]_vars

InitSet == InitOf(0, SetIds)

NextSet ==
    \/ SetSpawn
    \/ \E w \in SetIds : SetExecute(w)
    \/ SetWatched
    \/ SetReturn

SpecSet == InitSet /\ [][NextSet]_vars

\* Closures that use the _auto calls inside and outside use_as_current and
\* try_with_current, and return normally
NextTracker ==
    \/ Schedule
    \/ AddWatch("free")
    \/ \E c \in Cells : ExtGetMut(c, 0)
    \/ \E c \in Cells : OpGet(c)
    \/ \E c \in Cells : OpWatchedAuto(c)
    \/ \E c \in Cells : OpTriggerAuto(c)
    \/ OpUseAsCurrent
    \/ OpTryWithCurrent
    \/ OpEndUse

SpecTracker == Init /\ [][NextTracker]_vars


\* ------------------------------------------------------------- properties
CopySpawned == \E w \in WatchIds : body[w] = "copy"

\* C1: a notification never runs a watch synchronously.  A step taken while
\* no closure is running (an external mutation among them) leaves dest
\* unchanged and an external mutation starts no closure; when update()
\* returns and a copy watch has been spawned, dest equals the value of source.
C1_DeferredPropagation ==
    [][ /\ ~Running => dest' = dest
        /\ last'.op = "get_mut_external" => ~Running' /\ pc' = "idle"
        /\ last'.op = "update_return" /\ CopySpawned => dest' = value'[Source]
      ]_vars

\* an update() has re-run the copy watch and delivered the new value 1
C1_Witness ==
    /\ last.op = "update_return"
    /\ \E w \in WatchIds : body[w] = "copy" /\ cycle[w] = 2
    /\ value[Source] = 1 /\ dest = 1

\* C2: fixpoint.  When update() has returned, the pending buffer next_frame
\* is empty and nothing unprocessed is stored in the scratch buffer.
C2_FixpointOnReturn ==
    last.op = "update_return" => next_frame = <<>> /\ other_frame = <<>>

\* update() has returned after it re-ran a watch
C2_Witness ==
    /\ last.op = "update_return"
    /\ frame_id > 0
    /\ \E w \in WatchIds : cycle[w] = 2


\* the in-watch notifications: WatchedMeta::trigger and the calls built on it
InWatchNotify == {"trigger", "get_mut", "set", "set_if_neq"}
\* the references held by a cell's WatchSet
RefSet(c) == {Refs(watchers[c])[i] : i \in 1..Len(Refs(watchers[c]))}
\* the positions of next_frame filled by the step
NewEntries == (Len(next_frame) + 1)..Len(next_frame')
\* the step only appends to next_frame
OnlyAppends ==
    /\ Len(next_frame') >= Len(next_frame)
    /\ SubSeq(next_frame', 1, Len(next_frame)) = next_frame

\* C3: self-notification suppression.  A step in which the running watch W
\* notifies cell C through an in-watch call appends no entry for W to the
\* pending buffer and appends an entry for every fresh reference to another
\* watch that C's WatchSet held.
C3_SelfSuppression ==
    [][ last'.op \in InWatchNotify =>
          /\ OnlyAppends
          /\ \A i \in NewEntries : next_frame'[i].w # last'.w
          /\ \A r \in RefSet(last'.c) :
                r.w # last'.w /\ IsFresh(r) =>
                    \E i \in NewEntries :
                        /\ next_frame'[i].w = r.w
                        /\ next_frame'[i].cycle = r.cycle
      ]_vars

\* a watch that had observed the cell in this execution has notified it and
\* the entry pushed last is another watch's, pushed by this notification
C3_Witness ==
    /\ last.op \in {"trigger", "set", "set_if_neq"}
    /\ Running /\ Top.w = last.w
    /\ last.c \in obs[last.w]
    /\ next_frame # <<>>
    /\ LET e == next_frame[Len(next_frame)]
       IN  e.cell = last.c /\ e.src = last.w /\ e.w # last.w

\* the cells whose WatchSet holds a fresh reference to watch w
FreshSubs(w) == {c \in Cells : GetRef(w) \in RefSet(c)}

\* C4: dependency freshness.  When an execution of watch W ends, the cells
\* holding a fresh reference to W are exactly the cells W observed during
\* that execution.
C4_DependencyFreshness ==
    last.op = "return" => FreshSubs(last.w) = obs[last.w]

\* C5: at most once per frame.  No watch is executed twice in one drain
\* iteration of update().
C5_AtMostOncePerFrame ==
    \A i, j \in 1..Len(ran) : i # j => ran[i] # ran[j]

\* a second entry for a watch that already ran in this frame was skipped
C5_Witness ==
    /\ pc = "drain"
    /\ last.op = "skip"
    /\ \E i \in 1..Len(ran) : ran[i] = last.w


\* update() has stopped at its frame limit
Stopped == {"find_cycle", "hung", "panicked"}

\* every entry of a buffer was pushed during drain iteration k (0: outside
\* update())
BornIn(frame, k) == \A i \in 1..Len(frame) : frame[i].born = k

\* C6: double buffering.  While drain iteration k runs, the entries being
\* executed were pushed during iteration k - 1 (before the call, for k = 1)
\* and the entries pushed during iteration k wait in next_frame; at the loop
\* test next_frame is empty, so the entries of iteration k - 1 have all been
\* executed or skipped; outside update() nothing pushed by an iteration is
\* left.  When update() panics on the frame limit the entries of the last
\* iteration stay unexecuted.
C6_DoubleBuffering ==
    /\ pc \in {"loop", "drain"} \cup Stopped => BornIn(current_frame, iter - 1)
    /\ pc = "drain" => BornIn(next_frame, iter)
    /\ pc \in {"loop"} \cup Stopped => next_frame = <<>>
    /\ pc = "idle" => BornIn(next_frame, 0) /\ current_frame = <<>>

\* the unconditional form: also at a panic no entry pushed by a drain
\* iteration of the call is left unexecuted
C6_AsStated ==
    /\ C6_DoubleBuffering
    /\ pc \in Stopped => BornIn(current_frame, 0)

\* an entry pushed during the first iteration is executed in the second
C6_Witness ==
    /\ pc = "drain" /\ iter = 2
    /\ last.op = "execute"
    /\ Running

\* C7: stale references are skipped.  A pending entry that came from cell C
\* runs the closure of watch W only if W observed C in its most recent
\* execution.
C7_StaleSkipped ==
    [][ last'.op = "execute" => last'.c \in obs[last'.w] ]_vars

\* an entry from a cell the watch did not observe in its latest execution
\* was dropped
C7_Witness ==
    /\ last.op = "skip"
    /\ last.c \notin obs[last.w]
    /\ cycle[last.w] = 2

\* C8: spawn.  When the first execution of a watch, started by add_watch,
\* ends, every cell it observed holds a fresh reference to the watch and
\* total_watch_count counts the add_watch calls.
C8_SpawnSubscribes ==
    last.op = "return" /\ cycle[last.w] = 1 =>
        /\ obs[last.w] \subseteq FreshSubs(last.w)
        /\ total_watch_count = spawned


\* the notifications made without a running-watch context
ExternalNotify == {"get_mut_external", "trigger_external", "trigger_auto_empty"}

\* C9: a notification without a running-watch context appends one pending
\* entry for every reference the cell's WatchSet held, in order and with no
\* exclusion, also when it is made inside a closure.
C9_ExternalPushesAll ==
    [][ last'.op \in ExternalNotify =>
          LET held == Refs(watchers[last'.c])
              base == Len(next_frame)
          IN  /\ OnlyAppends
              /\ Len(next_frame') = base + Len(held)
              /\ \A i \in 1..Len(held) :
                    /\ next_frame'[base + i].w = held[i].w
                    /\ next_frame'[base + i].cycle = held[i].cycle
      ]_vars

\* trigger_auto found the thread-local slot empty inside a closure whose
\* watch had observed the cell, and the watch itself was pushed
C9_Witness ==
    /\ last.op = "trigger_auto_empty"
    /\ Running /\ Top.w = last.w
    /\ current_arg = 0
    /\ last.c \in obs[last.w]
    /\ next_frame # <<>>
    /\ LET e == next_frame[Len(next_frame)]
       IN  e.w = last.w /\ e.cell = last.c /\ e.src = 0 /\ e.cycle = cycle[last.w]

\* C10: frame limit.  With a limit of n, update() starts a drain iteration
\* only while fewer than n have run, it stops exactly when entries are pending
\* after n iterations, and having stopped it panics: the diagnostic it builds
\* first always returns.  Without a limit update() never stops this way.
C10_FrameLimit ==
    [][ /\ pc' = "drain" /\ limit0' # NoLimit => iter' <= limit0'
        /\ pc' \in Stopped =>
              limit0' # NoLimit /\ iter' - 1 = limit0' /\ current_frame' # <<>>
        /\ pc = "loop" /\ current_frame # <<>> =>
              IF limit0 # NoLimit /\ iter - 1 = limit0
              THEN pc' \in Stopped ELSE pc' = "drain"
        /\ pc' # "hung"
      ]_vars


\* both watches of a KeepBalanced of the given kind are spawned
Pair(kind) == spawned = 2 /\ body[1] = kind /\ body[2] = kind

\* C11: mutual balance by plain assignment.  Once both watches exist
\* update() never returns; after an external change of one side, reaching
\* the frame limit ends in the panic (the cycle search returns) and the
\* cycle reported goes through both watches.
C11_AssignCycleReported ==
    [][ Pair("assign") =>
          /\ last'.op # "update_return"
          /\ ext # NoExt => pc' # "hung"
          /\ ext # NoExt /\ pc' = "panicked" => {1, 2} \subseteq Range(visited')
      ]_vars

\* C12: mutual balance with set_if_neq.  After one external write of v to
\* either side, update() returns after at most two drain iterations with
\* left = right = v, and a frame limit of two or more (or none) is never
\* reached.
C12_NeqConverges ==
    [][ Pair("neq") =>
          /\ last'.op = "update_return" =>
                /\ value'[Left] = value'[Right]
                /\ ext # NoExt => value'[Left] = ext.v
                /\ iter - 1 <= 2
          /\ limit0' = NoLimit \/ limit0' >= 2 => pc' \notin Stopped
      ]_vars

\* an update() has carried the external value 1 to both sides in two frames
C12_Witness ==
    /\ Pair("neq")
    /\ last.op = "update_return"
    /\ frame_id = 2
    /\ value[Left] = 1 /\ value[Right] = 1

\* the MutsTwice watches are the ones spawned
Muts == spawned > 0 /\ body[1] = "muts"

\* C13: a watch that mutates its cell twice through get_mut stays subscribed
\* to it.  Its first run leaves the value two above what it found and the
\* cell holding a fresh reference to it; update() re-runs it only for a cell
\* written externally since the last update(), and returns with that cell two
\* above the value written.
C13_MutatorStaysSubscribed ==
    [][ Muts =>
          /\ last'.op = "return" =>
                /\ last'.w \in FreshSubs(last'.w)
                /\ cycle[last'.w] = 1 => value[last'.w] = 2
          /\ last'.op = "execute" =>
                ext.c = last'.w /\ value[last'.w] = ext.v
          /\ last'.op = "update_return" /\ ext.c \in 1..spawned =>
                value'[ext.c] = ext.v + 2
      ]_vars

\* update() has re-run the watch of cell 1 once after the external write of 1
C13_Witness ==
    /\ Muts
    /\ last.op = "update_return"
    /\ cycle[1] = 2
    /\ value[1] = 3


\* C14: no spurious re-runs.  Whenever update() executes a watch W, a cell
\* that W had observed in its latest execution (or in its first execution at
\* spawn) has been notified since that execution began.
C14_NoSpuriousRerun ==
    [][ last'.op = "execute" => dirty[last'.w] ]_vars

\* a re-run of a watch has started after a notification of a cell it had
\* observed, while another watch is still owed a re-run
C14_Witness ==
    /\ last.op = "execute"
    /\ cycle[last.w] = 2
    /\ ~dirty[last.w]
    /\ Running /\ Top.w = last.w
    /\ \E w \in WatchIds : w # last.w /\ dirty[w]

\* the steps that swap the buffers
SwapSteps == {"update", "frame_end"}

\* C15: FIFO within a frame.  The buffer drained is the pending buffer as it
\* was pushed: a swap hands it over unchanged, every other step only appends
\* to the pending buffer and leaves the buffer being drained alone, and a
\* drain step takes the oldest entry, which runs exactly when it is fresh.
C15_FifoWithinFrame ==
    [][ /\ last'.op \in {"execute", "skip"} =>
              /\ current_frame # <<>>
              /\ last'.w = Head(current_frame).w
              /\ last'.c = Head(current_frame).cell
              /\ (last'.op = "execute") = IsFresh(Head(current_frame))
              /\ current_frame' = Tail(current_frame)
        /\ last'.op \in SwapSteps => current_frame' = next_frame
        /\ last'.op \notin SwapSteps => OnlyAppends
        /\ last'.op \notin SwapSteps \cup {"execute", "skip", "update_return"} =>
              current_frame' = current_frame
      ]_vars

\* watch 2 was pushed before watch 1 and both have run in that order in one
\* drain iteration
C15_Witness ==
    /\ pc = "drain"
    /\ ran = <<2, 1>>
    /\ last.op = "execute" /\ last.w = 1

\* the calls by which a closure reads a cell's value
Reads == {"get", "copy"}

\* C16: mutation visibility.  A watch executed by a drain iteration never
\* reads a cell that another watch has written earlier in the same iteration.
C16_MutationVisibility ==
    [][ last'.op \in Reads /\ pc = "drain" /\ last'.w \in Range(ran) =>
          writer[last'.c] \in {0, last'.w} ]_vars

\* C17: destroying a cell acts as an external notification.  The step
\* appends one pending entry for every reference the cell's WatchSet held;
\* every watch that held a fresh subscription is owed a run from then on, and
\* when update() returns no watch is owed a run.
C17_DropNotifies ==
    [][ /\ last'.op = "drop" =>
              LET held == Refs(watchers[last'.c])
                  base == Len(next_frame)
              IN  /\ OnlyAppends
                  /\ Len(next_frame') = base + Len(held)
                  /\ \A i \in 1..Len(held) :
                        /\ next_frame'[base + i].w = held[i].w
                        /\ next_frame'[base + i].cycle = held[i].cycle
                  /\ \A w \in WatchIds :
                        last'.c \in FreshSubs(w) => dirty'[w]
                  /\ watchers'[last'.c] = NoList
        /\ last'.op = "update_return" => \A w \in WatchIds : ~dirty'[w]
      ]_vars

\* update() has returned after it re-ran both watches, whose pending
\* entries came from the destruction of cells they had observed
C17_Witness ==
    /\ last.op = "update_return"
    /\ \A w \in WatchIds : cycle[w] = 2 /\ ~dirty[w]
    /\ frame_id = 1

\* the stack's first frame that is inside use_as_current or try_with_current
FirstScoped ==
    stack[CHOOSE i \in 1..Len(stack) :
            /\ stack[i].scopes # <<>>
            /\ \A j \in 1..(i - 1) : stack[j].scopes = <<>>]

\* C18: scoped current watch.  When use_as_current or try_with_current is
\* left by a normal return, the thread-local slot holds the value it held
\* before the call; when a panic unwinds out of the user code, the slot holds
\* the value it held before the outermost of the calls unwound.
C18_ScopedCurrent ==
    [][ /\ last'.op = "end_use" =>
              current_arg' = Top.scopes[Len(Top.scopes)]
        /\ last'.op = "unwind" => current_arg' = FirstScoped.scopes[1]
      ]_vars

\* the entries of a buffer that came from cell c
From(frame, c) == {i \in 1..Len(frame) : frame[i].cell = c}

\* C19: sync-bridge delivery.  A trigger() on a trigger of a SyncWatchedMeta
\* that a watch has observed posts the bit of the meta's index; update()
\* clears the word and notifies once, with one entry per reference held, the
\* bridge cell of every bit that was posted, and no other bridge cell.
C19_SyncDelivery ==
    [][ /\ last'.op \in {"sync_trigger", "sync_trigger_inert"}
                /\ observed[last'.c] # {} /\ ~Dropped =>
              /\ index[last'.c] < FlagCount
              /\ index[last'.c] \in Bits(flag')
        /\ last'.op = "update" =>
              /\ flag' = 0
              /\ \A b \in BridgeCells :
                    /\ Cardinality(From(current_frame', b))
                          = Cardinality(From(next_frame, b))
                            + (IF b \in Flagged(flag)
                               THEN Len(Refs(watchers[b])) ELSE 0)
                    /\ b \notin Flagged(flag) => watchers'[b] = watchers[b]
      ]_vars

\* C20: lazy bit allocation.  The first watched() on a SyncWatchedMeta does
\* not panic, takes next_index as the index, stores the mask 1 << index and
\* the flag's handle, advances next_index and subscribes the running watch to
\* the bridge cell of the index; later calls keep the index.
C20_LazyBitAllocation ==
    [][ last'.op \in {"sync_watched", "sync_watched_panic"} =>
          LET m == last'.c
              held == Refs(watchers'[BridgeCell(index'[m])])
          IN  /\ last'.op = "sync_watched"
              /\ index[m] = UsizeMax =>
                    /\ index'[m] = next_index
                    /\ mask'[m] = 2 ^ next_index
                    /\ flag_pole'[m]
                    /\ next_index' # next_index
              /\ index[m] # UsizeMax => index'[m] = index[m]
              /\ \E i \in 1..Len(held) : held[i] = GetRef(last'.w)
      ]_vars

\* C21: bit index wrap.  next_index stays in 0..FLAG_COUNT-1, and a meta
\* that a watch has observed has an index that addresses one of the
\* FLAG_COUNT bridge cells and a mask that is the single bit of that index.
C21_BitIndexWrap ==
    /\ next_index \in 0..(FlagCount - 1)
    /\ \A m \in Metas :
          observed[m] # {} =>
              /\ index[m] \in 0..(FlagCount - 1)
              /\ mask[m] = 2 ^ index[m]

\* C22: no missed wake-ups under aliasing.  When a trigger of a meta fires
\* while the context lives, every watch whose latest execution observed the
\* meta holds a fresh reference in the bridge cell of a bit that is then
\* posted, and when update() returns no watch is still owed a run.
C22_NoMissedWakeup ==
    [][ /\ last'.op \in {"sync_trigger", "sync_trigger_inert"} /\ ~Dropped =>
              \A w \in observed[last'.c] :
                  \E i \in Bits(flag') :
                      LET held == Refs(watchers'[BridgeCell(i)])
                      IN  \E k \in 1..Len(held) : held[k] = GetRef(w)
        /\ last'.op = "update_return" => \A w \in WatchIds : ~dirty'[w]
      ]_vars

\* C23: trigger after the context is dropped.  Once the WatchContext has
\* been dropped, SyncTrigger::trigger finds no word to post to: it leaves
\* the word, the pending buffers, the subscriptions and the home thread's
\* position as they were.
C23_TriggerAfterDrop ==
    [][ Dropped /\ last'.op \in {"sync_trigger", "sync_trigger_inert"} =>
          /\ last'.op = "sync_trigger_inert"
          /\ UNCHANGED <<flag, next_frame, other_frame, current_frame,
                         watchers, pc, stack, bridge>>
      ]_vars
\* a trigger of a meta that a watch had observed fires after the drop
C23_Witness ==
    /\ Dropped
    /\ last.op = "sync_trigger_inert"
    /\ observed[last.c] # {}

\* C26: set_if_neq.  After set_if_neq(v) or set_if_neq_external(v) the cell
\* holds v.  When the previous value differed from v, the cell's WatchSet is
\* taken and its references, but for the running watch's, are appended to
\* the pending buffer; when it was equal, the pending buffer and the
\* WatchSet are left as they were.
C26_SetIfNeq ==
    [][ last'.op \in {"set_if_neq", "set_if_neq_same",
                      "set_if_neq_external", "set_if_neq_external_same"} =>
          LET c == last'.c
              held == Refs(watchers[c])
              taken == SelectSeq(held, LAMBDA ref : ref.w # last'.w)
          IN  /\ value'[c] = last'.v
              /\ IF value[c] # last'.v
                 THEN /\ last'.op \in {"set_if_neq", "set_if_neq_external"}
                      /\ watchers'[c] = NoList
                      /\ Len(next_frame') = Len(next_frame)
                            + (IF Dropped THEN 0 ELSE Len(taken))
                      /\ \A i \in 1..Len(taken) : ~Dropped =>
                            next_frame'[Len(next_frame) + i].w = taken[i].w
                 ELSE /\ next_frame' = next_frame
                      /\ watchers' = watchers
      ]_vars
\* a set_if_neq of the value the cell holds, on a cell with a subscriber
\* other than the caller
C26_Witness ==
    /\ last.op = "set_if_neq_same"
    /\ \E i \in 1..Len(Refs(watchers[last.c])) :
          Refs(watchers[last.c])[i].w # last.w

\* C29: one-shot subscriptions.  After a notification of a cell, in a
\* closure or external, the cell's WatchSet is empty: every reference it
\* held is gone, pushed or not, also when the pending buffer no longer
\* exists.  get_mut subscribes the running watch after its notification, so
\* it leaves that one reference.
C29_OneShot ==
    [][ /\ last'.op \in {"trigger", "set_if_neq", "get_mut_external",
                          "set_if_neq_external"} =>
              watchers'[last'.c] = NoList
        /\ last'.op = "get_mut" =>
              Refs(watchers'[last'.c]) = <<GetRef(last'.w)>>
        /\ Dropped /\ last'.op \in {"get_mut_external", "set_if_neq_external"} =>
              next_frame' = <<>>
      ]_vars
\* the running watch notifies a cell it has just observed: its own
\* reference is filtered out, and the WatchSet is empty
C29_Witness ==
    /\ last.op = "trigger"
    /\ Running
    /\ last.c \in obs[last.w]
    /\ Top.left = 0
    /\ watchers[last.c] = NoList

\* C30: the frame-limit budget belongs to one call of update().  Every call
\* starts its counter from the stored limit, whatever earlier calls have
\* used; it takes the panic path only when it has itself run that many
\* drain iterations; and nothing but set_frame_limit changes the stored
\* limit.
C30_BudgetPerCall ==
    [][ /\ last'.op = "update" => limit' = frame_limit
        /\ last'.op = "do_panic" => iter - 1 = frame_limit
        /\ pc \in {"loop", "drain"} /\ frame_limit # NoLimit =>
              limit = frame_limit - (iter - 1)
        /\ last'.op # "set_frame_limit" => frame_limit' = frame_limit
      ]_vars
\* a call of update() is about to return normally after using its whole
\* budget, earlier calls having run drain iterations as well
C30_Witness ==
    /\ pc = "loop"
    /\ LoopDone
    /\ frame_limit >= 1
    /\ iter - 1 = frame_limit
    /\ limit = 0
    /\ frame_id > iter - 1

\* C27: borrow exclusivity.  At most one closure of BorrowedPointer::upgrade
\* or allow_refs is running on the thread, and the borrow state is
\* NothingBorrowed exactly when none is; an upgrade of a live pointer or an
\* allow_refs started while one is running panics; when a scope ends, by
\* return or by unwinding, the state is NothingBorrowed.
C27_BorrowExclusivity ==
    [][ /\ Len(scopes') <= 1
        /\ scopes' = <<>> <=> borrow_state' = NothingBorrowed
        /\ scopes # <<>> /\ last'.op \in {"upgrade", "upgrade_panic",
                                            "allow_refs", "allow_refs_panic"} =>
              last'.op \in {"upgrade_panic", "allow_refs_panic"}
        /\ Len(scopes') < Len(scopes) => borrow_state' = NothingBorrowed
      ]_vars
\* an upgrade attempted inside a running scope has panicked and unwound
\* through it
C27_Witness ==
    /\ last.op = "upgrade_panic"
    /\ scopes = <<>>
    /\ borrow_state = NothingBorrowed

\* C28: owned access.  OwnedPointer::as_ref / as_mut on pointer p return
\* exactly when the state is BorrowsBlocked or Borrowed(q) with q # p, that
\* is, inside allow_refs or inside the upgrade of another pointer; they
\* panic when nothing is borrowed and when p itself is upgraded.
C28_OwnedAccess ==
    [][ last'.op \in {"as_ref", "as_mut", "as_panic"} =>
          LET p == last'.c IN
          /\ last'.op # "as_panic" <=>
                \/ borrow_state = BorrowsBlocked
                \/ \E q \in Pointers \ {p} : borrow_state = Borrowed(q)
          /\ last'.op # "as_panic" <=>
                /\ scopes # <<>>
                /\ Scope.kind = "allow_refs" \/ Scope.ptr # p
          /\ last'.op = "as_panic" <=>
                \/ borrow_state = NothingBorrowed
                \/ borrow_state = Borrowed(p)
      ]_vars
\* as_mut has written to a pointer inside the upgrade of another one
C28_Witness ==
    /\ last.op = "as_mut"
    /\ borrow_state.kind = "Borrowed"
    /\ borrow_state.ptr # last.c
    /\ pdata[last.c] = 1

\* a reference or a pending entry carries the current generation of watch w
\* in the next state
FreshLeft(w) ==
    \/ \E c \in DOMAIN watchers : \E i \in 1..Len(Refs(watchers'[c])) :
          Refs(watchers'[c])[i] = MkRef(w, cycle'[w])
    \/ \E i \in 1..Len(next_frame') :
          next_frame'[i].w = w /\ next_frame'[i].cycle = cycle'[w]
    \/ \E i \in 1..Len(current_frame') :
          current_frame'[i].w = w /\ current_frame'[i].cycle = cycle'[w]

\* C25: holder drop.  Once the holder of a watcher has been dropped, at the
\* top level or during a frame, the bodies of its watches are not invoked
\* again: an entry of such a watch is consumed without a call of the body,
\* pushes nothing, changes no WatchSet, and leaves no fresh reference to the
\* watch behind, so update() has nothing more to do for it.
C25_HolderDrop ==
    [][ /\ Len(stack') > Len(stack) /\ last'.op = "execute" =>
              holder[last'.w] = 0 \/ owned[holder[last'.w]]
        /\ last'.op \in {"execute", "execute_dead"}
                /\ holder[last'.w] # 0 /\ ~owned[holder[last'.w]] =>
              /\ last'.op = "execute_dead"
              /\ stack' = stack
              /\ next_frame' = next_frame
              /\ watchers' = watchers
              /\ ~FreshLeft(last'.w)
      ]_vars
\* the entry of a watch whose holder is gone is consumed in a drain
\* iteration in which another watch has run before it
C25_Witness ==
    /\ last.op = "execute_dead"
    /\ pc = "drain"
    /\ Len(ran) = 2
    /\ ran[1] # ran[2]

\* a receiving watch exists
Receiving == spawned >= 1
\* something will run a receiving watch: a wake-up posted or about to be
\* posted by a send under way, a receiving watch running, or a fresh entry
\* in a pending buffer
WakeupPending ==
    \/ ch_flag
    \/ \E t \in Senders : sending[t].stage = 1
    \/ Running
    \/ \E i \in 1..Len(next_frame) : IsFresh(next_frame[i])
    \/ \E i \in 1..Len(current_frame) : IsFresh(current_frame[i])

C31_FrameId ==
    [][ /\ last'.op = "frame_end" =>
              frame_id' = (frame_id + 1) % FrameIdModulus
        /\ last'.op # "frame_end" => frame_id' = frame_id
        /\ last'.op = "update" => iter' = 1
        /\ last'.op = "frame" => current_frame # <<>> /\ iter' = iter
        /\ last'.op = "frame_end" => iter' = iter + 1
        /\ last'.op = "update_return" =>
              frame_id' = (id0 + (iter - 1)) % FrameIdModulus
      ]_vars
\* an update() that drained two frames has returned and the id has wrapped
C31_Witness ==
    /\ last.op = "update_return"
    /\ id0 = FrameIdModulus - 1
    /\ frame_id = 1

\* C32: the bridge is drained at each frame boundary.  A trigger() of a meta
\* that a watch has observed, made while a drain iteration of update() is
\* running, posts the bit of the meta's index, and the end of that iteration
\* clears the word and notifies the bridge cell of every posted bit, whose
\* references are in the frame the next iteration drains.
C32_DrainEachFrame ==
    [][ /\ (/\ last'.op \in {"sync_trigger", "sync_trigger_inert"}
            /\ pc = "drain"
            /\ observed[last'.c] # {}) =>
              /\ index[last'.c] < FlagCount
              /\ index[last'.c] \in Bits(flag')
        /\ last'.op = "frame_end" =>
              /\ flag' = 0
              /\ \A b \in Flagged(flag) :
                    /\ watchers'[b] = NoList
                    /\ Cardinality(From(current_frame', b))
                          = Cardinality(From(next_frame, b))
                            + Len(Refs(watchers[b]))
      ]_vars

\* the callback of try_with_current is running in the innermost closure
InCallback == Running /\ Top.scopes # <<>> /\ current_arg = 0

\* C33: tracker take / restore.  try_with_current on a slot that holds a
\* watch empties the slot and calls the callback; while the callback runs a
\* watched_auto records nothing and a trigger_auto pushes the references of
\* the cell as an external trigger does; when the callback returns the slot
\* holds what it held before the call; on an empty slot try_with_current
\* calls nothing and leaves the slot empty.
C33_TakeRestore ==
    [][ /\ last'.op = "try_with_current" =>
              /\ current_arg # 0
              /\ current_arg' = 0
              /\ stack'[Len(stack)].scopes = Append(Top.scopes, current_arg)
        /\ last'.op = "try_with_current_none" =>
              /\ current_arg = 0
              /\ current_arg' = 0
              /\ stack'[Len(stack)].scopes = Top.scopes
        /\ (InCallback /\ last'.op \in {"watched_auto", "watched_auto_empty"}) =>
              UNCHANGED <<watchers, obs, next_frame, current_arg>>
        /\ (InCallback /\ last'.op \in {"trigger_auto", "trigger_auto_empty"}) =>
              /\ next_frame' = ExternalPush(last'.c)
              /\ current_arg' = 0
        /\ last'.op = "end_use" =>
              /\ current_arg' = Top.scopes[Len(Top.scopes)]
              /\ stack'[Len(stack)].scopes
                    = SubSeq(Top.scopes, 1, Len(Top.scopes) - 1)
      ]_vars
\* inside the callback, a trigger_auto has pushed the watch whose slot value
\* was taken
C33_Witness ==
    /\ InCallback
    /\ last.op = "trigger_auto_empty"
    /\ \E i \in 1..Len(next_frame) :
          /\ next_frame[i].w = Top.scopes[Len(Top.scopes)]
          /\ next_frame[i].cell = last.c
          /\ next_frame[i].src = 0

\* C34: cycle report soundness.  When find_cycle has returned a sequence
\* that is not empty, every element with its successor, and the last element
\* with the first, is an edge of watch_edges, and no element is the null
\* source of an external trigger.
C34_CycleSound ==
    (pc = "panicked" /\ visited # <<>>) =>
        /\ \A i \in 1..(Len(visited) - 1) :
              <<visited[i], visited[i + 1]>> \in watch_edges
        /\ <<visited[Len(visited)], visited[1]>> \in watch_edges
        /\ \A i \in 1..Len(visited) : visited[i] # 0
\* a cycle through two watches was returned for a graph that also has an
\* edge from the null source
C34_Witness ==
    /\ pc = "panicked"
    /\ Len(visited) = 2
    /\ \E e \in watch_edges : e[1] = 0

\* C35: cycle search termination.  find_cycle returns for every edge set
\* that track_frame records, so an update() that has reached its frame limit
\* never stays in the search.
C35_FindCycleTerminates == pc # "hung"

\* the watches a sequence of references refers to
WatchesOf(refs) == {refs[i].w : i \in 1..Len(refs)}

C37_AddFillsSlot ==
    [][ last'.op \in {"add", "add_squash"} =>
          LET ws   == watchers[last'.c]
              head == IF ws.some THEN Head(ws.chain) ELSE EmptyNode
              ref  == GetRef(last'.w)
              ins  == Insert(ws, ref, TRUE)
              now  == NodeRefs(Head(ins.chain), 1)
          IN  /\ (\E i \in 1..NodeSize : head[i] = NoRef) =>
                    /\ ins.nodes = (IF ws.some THEN ws.nodes ELSE 1)
                    /\ \E i \in 1..Len(now) : now[i] = ref
              /\ (\E i \in 1..NodeSize : head[i].w = ref.w) =>
                    /\ \E i \in 1..Len(now) : now[i] = ref
                    /\ \A i, j \in 1..Len(now) :
                          (now[i].w = ref.w /\ now[j].w = ref.w) => i = j
      ]_vars

\* the calls of handle_item
HandleOps == {"handle_item_pop", "handle_item_same", "handle_item_none"}

C39_NoDoubleDelivery ==
    \A w \in WatchIds :
        \A j, k \in 1..Len(handled[w]) :
            handled[w][j] = handled[w][k] => j = k

\* C40: no item is lost.  When update() has returned, every item pushed has
\* been passed to the callback of every watch that was subscribed to the
\* queue when it was pushed: every watch, other than the one that pushed,
\* whose latest execution had called handle_item.
C40_NoLostItem ==
    last.op = "update_return" =>
        \A i \in 1..pushes :
            \A w \in subs[i] : i \in Range(handled[w])

====
